---- MODULE Spec2Model ----
(***************************************************************************)
(* Model of generate_snapshots.py (value normaliser, object snapshot       *)
(* builder, bundle snapshot orchestrator, command line driver) and of the  *)
(* snapshot comparator of tests/test_snapshot_validation.py.               *)
(*                                                                         *)
(* Values are tagged records, one tag per Python type the code tests with  *)
(* isinstance.  Python strings are sequences of one-character strings so   *)
(* that str(), int(), substring tests and sorting operate on characters.   *)
(* Python integers are unbounded: they are kept as a sign and a list of    *)
(* decimal digits, so that the signed 64-bit identifiers of the bundles    *)
(* fit.                                                                    *)
(***************************************************************************)
EXTENDS Integers, Sequences, FiniteSets, TLC

VARIABLES
    sv_pc, sv_in, sv_key, sv_out, sv_conv,      \* value normaliser run
    cv_pc, cv_a, cv_b, cv_ab, cv_ba,            \* comparator run
    fn_pc, fn_in, fn_out,                       \* object file naming run
    os_pc, os_in, os_out,                       \* object snapshot builder run
    pc, bundle, fs, ret, idx, version_tuple, texture_map, attempted, log,
    run, fs_first, ret_first, log_first,        \* orchestrator run(s)
    m_pc, m_in, m_files, m_k, m_call, m_results, m_out, m_index,
    exit_code                                   \* main

serVars  == <<sv_pc, sv_in, sv_key, sv_out, sv_conv>>
cmpVars  == <<cv_pc, cv_a, cv_b, cv_ab, cv_ba>>
nameVars == <<fn_pc, fn_in, fn_out>>
snapVars == <<os_pc, os_in, os_out>>
orchVars == <<pc, bundle, fs, ret, idx, version_tuple, texture_map, attempted,
              log, run, fs_first, ret_first, log_first>>
mainVars == <<m_pc, m_in, m_files, m_k, m_call, m_results, m_out, m_index,
              exit_code>>
vars == <<serVars, cmpVars, nameVars, snapVars, orchVars, mainVars>>

----------------------------------------------------------------------------
(* Characters and strings *)

\* The characters used, in ASCII order; CharCode is the rank in that order.
Alphabet ==
    <<"-", ".", "/", "0", "1", "2", "3", "4", "5", "6", "7", "8", "9",
      "A", "B", "C", "D", "E", "F", "G", "H", "I", "J", "K", "L", "M",
      "N", "O", "P", "Q", "R", "S", "T", "U", "V", "W", "X", "Y", "Z",
      "[", "]", "_",
      "a", "b", "c", "d", "e", "f", "g", "h", "i", "j", "k", "l", "m",
      "n", "o", "p", "q", "r", "s", "t", "u", "v", "w", "x", "y", "z">>

CharCode(c) == CHOOSE k \in DOMAIN Alphabet : Alphabet[k] = c

DigitChars == <<"0", "1", "2", "3", "4", "5", "6", "7", "8", "9">>

DigitChar(d) == DigitChars[d + 1]

IsDigit(c) == \E k \in DOMAIN DigitChars : DigitChars[k] = c

DigitVal(c) == (CHOOSE k \in DOMAIN DigitChars : DigitChars[k] = c) - 1

\* s < t in Python's string order (code point by code point, shorter first).
RECURSIVE StrLess(_, _)
StrLess(s, t) ==
    IF t = <<>> THEN FALSE
    ELSE IF s = <<>> THEN TRUE
    ELSE IF Head(s) # Head(t) THEN CharCode(Head(s)) < CharCode(Head(t))
    ELSE StrLess(Tail(s), Tail(t))

\* Python's  sub in s  for strings.
Contains(s, sub) ==
    \E k \in 0..(Len(s) - Len(sub)) :
        \A j \in 1..Len(sub) : s[k + j] = sub[j]

\* The names and string literals of the program, as character sequences.
s_dot_hhh == <<".", "h", "h", "h">>
s_dot_json == <<".", "j", "s", "o", "n">>
s_dot_png == <<".", "p", "n", "g">>
s_BambooCopter_head ==
    <<"B", "a", "m", "b", "o", "o", "C", "o", "p", "t", "e", "r", "_", "h",
      "e", "a", "d">>
s_Failed_to_extract_geometry ==
    <<"F", "a", "i", "l", "e", "d", " ", "t", "o", " ", "e", "x", "t", "r",
      "a", "c", "t", " ", "g", "e", "o", "m", "e", "t", "r", "y", ":", " ">>
s_Failed_to_parse ==
    <<"F", "a", "i", "l", "e", "d", " ", "t", "o", " ", "p", "a", "r", "s",
      "e", ":", " ">>
s_False == <<"F", "a", "l", "s", "e">>
s_GameObject == <<"G", "a", "m", "e", "O", "b", "j", "e", "c", "t">>
s_Material == <<"M", "a", "t", "e", "r", "i", "a", "l">>
s_Mesh == <<"M", "e", "s", "h">>
s_PathID == <<"P", "a", "t", "h", "I", "D">>
s_StandaloneWindows64 ==
    <<"S", "t", "a", "n", "d", "a", "l", "o", "n", "e", "W", "i", "n", "d",
      "o", "w", "s", "6", "4">>
s_Texture2D == <<"T", "e", "x", "t", "u", "r", "e", "2", "D">>
s_True == <<"T", "r", "u", "e">>
s_Unknown == <<"U", "n", "k", "n", "o", "w", "n">>
s__BumpMap == <<"_", "B", "u", "m", "p", "M", "a", "p">>
s__Color == <<"_", "C", "o", "l", "o", "r">>
s__EmissionColor ==
    <<"_", "E", "m", "i", "s", "s", "i", "o", "n", "C", "o", "l", "o", "r">>
s__MainTex == <<"_", "M", "a", "i", "n", "T", "e", "x">>
s__Mode == <<"_", "M", "o", "d", "e">>
s__binary == <<"_", "b", "i", "n", "a", "r", "y">>
s__color == <<"_", "c", "o", "l", "o", "r">>
s__colors == <<"_", "c", "o", "l", "o", "r", "s">>
s__error == <<"_", "e", "r", "r", "o", "r">>
s__floats == <<"_", "f", "l", "o", "a", "t", "s">>
s__format == <<"_", "f", "o", "r", "m", "a", "t">>
s__geometry_info ==
    <<"_", "g", "e", "o", "m", "e", "t", "r", "y", "_", "i", "n", "f", "o">>
s__mesh_data == <<"_", "m", "e", "s", "h", "_", "d", "a", "t", "a">>
s__textures == <<"_", "t", "e", "x", "t", "u", "r", "e", "s">>
s__type == <<"_", "t", "y", "p", "e">>
s_a == <<"a">>
s_a_hhh == <<"a", ".", "h", "h", "h">>
s_b == <<"b">>
s_b_hhh == <<"b", ".", "h", "h", "h">>
s_base64 == <<"b", "a", "s", "e", "6", "4">>
s_big == <<"b", "i", "g">>
s_bundle_name == <<"b", "u", "n", "d", "l", "e", "_", "n", "a", "m", "e">>
s_byte_size == <<"b", "y", "t", "e", "_", "s", "i", "z", "e">>
s_byte_start == <<"b", "y", "t", "e", "_", "s", "t", "a", "r", "t">>
s_class_id == <<"c", "l", "a", "s", "s", "_", "i", "d">>
s_colors == <<"c", "o", "l", "o", "r", "s">>
s_component == <<"c", "o", "m", "p", "o", "n", "e", "n", "t">>
s_data == <<"d", "a", "t", "a">>
s_endianness == <<"e", "n", "d", "i", "a", "n", "n", "e", "s", "s">>
s_error == <<"e", "r", "r", "o", "r">>
s_file_name == <<"f", "i", "l", "e", "_", "n", "a", "m", "e">>
s_file_path == <<"f", "i", "l", "e", "_", "p", "a", "t", "h">>
s_file_size == <<"f", "i", "l", "e", "_", "s", "i", "z", "e">>
s_g == <<"g">>
s_has_compressed_mesh ==
    <<"h", "a", "s", "_", "c", "o", "m", "p", "r", "e", "s", "s", "e", "d",
      "_", "m", "e", "s", "h">>
s_has_index_buffer ==
    <<"h", "a", "s", "_", "i", "n", "d", "e", "x", "_", "b", "u", "f", "f",
      "e", "r">>
s_has_normals == <<"h", "a", "s", "_", "n", "o", "r", "m", "a", "l", "s">>
s_has_stream_data ==
    <<"h", "a", "s", "_", "s", "t", "r", "e", "a", "m", "_", "d", "a", "t",
      "a">>
s_has_tangents ==
    <<"h", "a", "s", "_", "t", "a", "n", "g", "e", "n", "t", "s">>
s_header_version ==
    <<"h", "e", "a", "d", "e", "r", "_", "v", "e", "r", "s", "i", "o", "n">>
s_indexCount == <<"i", "n", "d", "e", "x", "C", "o", "u", "n", "t">>
s_index_count == <<"i", "n", "d", "e", "x", "_", "c", "o", "u", "n", "t">>
s_indices == <<"i", "n", "d", "i", "c", "e", "s">>
s_inf == <<"i", "n", "f">>
s_little == <<"l", "i", "t", "t", "l", "e">>
s_m_Colors == <<"m", "_", "C", "o", "l", "o", "r", "s">>
s_m_Component == <<"m", "_", "C", "o", "m", "p", "o", "n", "e", "n", "t">>
s_m_CompressedMesh ==
    <<"m", "_", "C", "o", "m", "p", "r", "e", "s", "s", "e", "d", "M", "e",
      "s", "h">>
s_m_FileID == <<"m", "_", "F", "i", "l", "e", "I", "D">>
s_m_Floats == <<"m", "_", "F", "l", "o", "a", "t", "s">>
s_m_IndexBuffer ==
    <<"m", "_", "I", "n", "d", "e", "x", "B", "u", "f", "f", "e", "r">>
s_m_IsActive == <<"m", "_", "I", "s", "A", "c", "t", "i", "v", "e">>
s_m_Name == <<"m", "_", "N", "a", "m", "e">>
s_m_Offset == <<"m", "_", "O", "f", "f", "s", "e", "t">>
s_m_PathID == <<"m", "_", "P", "a", "t", "h", "I", "D">>
s_m_PathId == <<"m", "_", "P", "a", "t", "h", "I", "d">>
s_m_SavedProperties ==
    <<"m", "_", "S", "a", "v", "e", "d", "P", "r", "o", "p", "e", "r", "t",
      "i", "e", "s">>
s_m_Scale == <<"m", "_", "S", "c", "a", "l", "e">>
s_m_Script == <<"m", "_", "S", "c", "r", "i", "p", "t">>
s_m_Shader == <<"m", "_", "S", "h", "a", "d", "e", "r">>
s_m_StreamData ==
    <<"m", "_", "S", "t", "r", "e", "a", "m", "D", "a", "t", "a">>
s_m_SubMeshes == <<"m", "_", "S", "u", "b", "M", "e", "s", "h", "e", "s">>
s_m_TexEnvs == <<"m", "_", "T", "e", "x", "E", "n", "v", "s">>
s_m_Texture == <<"m", "_", "T", "e", "x", "t", "u", "r", "e">>
s_metadata == <<"m", "e", "t", "a", "d", "a", "t", "a">>
s_name == <<"n", "a", "m", "e">>
s_nan == <<"n", "a", "n">>
s_object_count ==
    <<"o", "b", "j", "e", "c", "t", "_", "c", "o", "u", "n", "t">>
s_object_list == <<"o", "b", "j", "e", "c", "t", "_", "l", "i", "s", "t">>
s_objects == <<"o", "b", "j", "e", "c", "t", "s">>
s_objects_by_type ==
    <<"o", "b", "j", "e", "c", "t", "s", "_", "b", "y", "_", "t", "y", "p",
      "e">>
s_offset == <<"o", "f", "f", "s", "e", "t">>
s_old_timestamp ==
    <<"o", "l", "d", "_", "t", "i", "m", "e", "s", "t", "a", "m", "p">>
s_pathID == <<"p", "a", "t", "h", "I", "D">>
s_path_id == <<"p", "a", "t", "h", "_", "i", "d">>
s_platform == <<"p", "l", "a", "t", "f", "o", "r", "m">>
s_r == <<"r">>
s_scale == <<"s", "c", "a", "l", "e">>
s_size == <<"s", "i", "z", "e">>
s_stream_size == <<"s", "t", "r", "e", "a", "m", "_", "s", "i", "z", "e">>
s_sub_a_hhh == <<"s", "u", "b", "/", "a", ".", "h", "h", "h">>
s_tex_ == <<"t", "e", "x", "_">>
s_textures_tex_ ==
    <<"t", "e", "x", "t", "u", "r", "e", "s", "/", "t", "e", "x", "_">>
s_timestamp == <<"t", "i", "m", "e", "s", "t", "a", "m", "p">>
s_topology == <<"t", "o", "p", "o", "l", "o", "g", "y">>
s_total_objects ==
    <<"t", "o", "t", "a", "l", "_", "o", "b", "j", "e", "c", "t", "s">>
s_type == <<"t", "y", "p", "e">>
s_unity_version ==
    <<"u", "n", "i", "t", "y", "_", "v", "e", "r", "s", "i", "o", "n">>
s_uv0 == <<"u", "v", "0">>
s_uv1 == <<"u", "v", "1">>
s_vertexCount == <<"v", "e", "r", "t", "e", "x", "C", "o", "u", "n", "t">>
s_vertex_count ==
    <<"v", "e", "r", "t", "e", "x", "_", "c", "o", "u", "n", "t">>
s_vertices == <<"v", "e", "r", "t", "i", "c", "e", "s">>
s_x == <<"x">>
s_y == <<"y">>

----------------------------------------------------------------------------
(* Python integers and their decimal rendering *)

\* Python integers are unbounded.  One is kept as its sign and the list of
\* its decimal digits (numbers 0..9), most significant first, without leading
\* zeros; zero is <<0>> and is not negative.
Abs(n) == IF n < 0 THEN -n ELSE n

RECURSIVE DigitsOf(_)
DigitsOf(k) ==
    IF k < 10 THEN <<k>> ELSE DigitsOf(k \div 10) \o <<k % 10>>

\* A machine-size integer as a Python integer.
I(n) == [neg |-> n < 0, mag |-> DigitsOf(Abs(n))]

\* A Python integer from its sign and digits.
Big(neg, mag) == [neg |-> neg, mag |-> mag]

\* The value of a Python integer that fits the machine size.
RECURSIVE MagVal(_)
MagVal(ds) ==
    IF ds = <<>> THEN 0
    ELSE 10 * MagVal(SubSeq(ds, 1, Len(ds) - 1)) + ds[Len(ds)]

IntVal(n) == IF n.neg THEN -MagVal(n.mag) ELSE MagVal(n.mag)

\* str(n) for a Python integer n.
IntToStr(n) ==
    (IF n.neg THEN <<"-">> ELSE <<>>)
        \o [k \in DOMAIN n.mag |-> DigitChar(n.mag[k])]

RECURSIVE Pow10(_)
Pow10(k) == IF k = 0 THEN 1 ELSE 10 * Pow10(k - 1)

\* Finite floats are kept in units of 10^-7: this is 1.0.
FloatUnit == Pow10(7)

RECURSIVE StripZeros(_)
StripZeros(ds) ==
    IF Len(ds) > 1 /\ Head(ds) = 0 THEN StripZeros(Tail(ds)) ELSE ds

\* ^-?[0-9]+$
IsDecimalString(s) ==
    LET body == IF s # <<>> /\ Head(s) = "-" THEN Tail(s) ELSE s
    IN  body # <<>> /\ \A k \in DOMAIN body : IsDigit(body[k])

\* int(s) for a string matching ^-?[0-9]+$.
StrToInt(s) ==
    LET negative == Head(s) = "-"
        body == IF negative THEN Tail(s) ELSE s
        mag == StripZeros([k \in DOMAIN body |-> DigitVal(body[k])])
    IN  Big(negative /\ mag # <<0>>, mag)

----------------------------------------------------------------------------
(* Python values *)

VNone       == [t |-> "none"]
VBool(b)    == [t |-> "bool", b |-> b]
VInt(n)     == [t |-> "int", n |-> n]
\* A finite float, in units of 10^-7.
VFloat(u)   == [t |-> "float", k |-> "fin", u |-> u]
VNaN        == [t |-> "float", k |-> "nan", u |-> 0]
VInf   == [t |-> "float", k |-> "inf", u |-> 1]
VNegInf == [t |-> "float", k |-> "inf", u |-> -1]
VStr(s)    == [t |-> "str", s |-> s]
VBytes(bs)  == [t |-> "bytes", bs |-> bs]
VList(xs)   == [t |-> "list", items |-> xs]
VTuple(xs)  == [t |-> "tuple", items |-> xs]
VDict(d)    == [t |-> "dict", d |-> d]
\* numpy scalars and arrays, and an object with an attribute bag.
VNpInt(n)   == [t |-> "npint", n |-> n]
VNpFloat(f) == [t |-> "npfloat", f |-> f]
VNdArray(xs) == [t |-> "ndarray", items |-> xs]
VObject(attrs) == [t |-> "object", attrs |-> attrs]

\* The key context of a value that was reached under no key (key=None).
NoKey == <<"<None>">>

\* isinstance(v, int): bool is a subclass of int.
IsInt(v) == v.t \in {"int", "bool"}

\* isinstance(v, (int, float))
IsNumber(v) == v.t \in {"bool", "int", "float"}

\* int(v) for an int or a bool.
AsInt(v) == IF v.t = "bool" THEN (IF v.b THEN I(1) ELSE I(0)) ELSE v.n

\* str(v) for an int, a bool or a str.
PyStr(v) ==
    CASE v.t = "bool" -> IF v.b THEN s_True ELSE s_False
      [] v.t = "int"  -> IntToStr(v.n)
      [] v.t = "str"  -> v.s

\* numpy's tolist(): the same data as Python scalars and nested lists.
RECURSIVE tolist(_)
tolist(value) ==
    CASE value.t = "npint"   -> VInt(value.n)
      [] value.t = "npfloat" -> value.f
      [] value.t = "ndarray" ->
            VList([j \in DOMAIN value.items |-> tolist(value.items[j])])

Base64Alphabet ==
    <<"A", "B", "C", "D", "E", "F", "G", "H", "I", "J", "K", "L", "M",
      "N", "O", "P", "Q", "R", "S", "T", "U", "V", "W", "X", "Y", "Z",
      "a", "b", "c", "d", "e", "f", "g", "h", "i", "j", "k", "l", "m",
      "n", "o", "p", "q", "r", "s", "t", "u", "v", "w", "x", "y", "z",
      "0", "1", "2", "3", "4", "5", "6", "7", "8", "9", "+", "/">>

Sextet(k) == Base64Alphabet[k + 1]

\* base64.b64encode(bs).decode('ascii')
RECURSIVE b64encode(_)
b64encode(bs) ==
    IF bs = <<>> THEN <<>>
    ELSE IF Len(bs) = 1 THEN
        <<Sextet(bs[1] \div 4), Sextet((bs[1] % 4) * 16), "=", "=">>
    ELSE IF Len(bs) = 2 THEN
        <<Sextet(bs[1] \div 4), Sextet((bs[1] % 4) * 16 + bs[2] \div 16),
          Sextet((bs[2] % 16) * 4), "=">>
    ELSE
        <<Sextet(bs[1] \div 4), Sextet((bs[1] % 4) * 16 + bs[2] \div 16),
          Sextet((bs[2] % 16) * 4 + bs[3] \div 64), Sextet(bs[3] % 64)>>
            \o b64encode(SubSeq(bs, 4, Len(bs)))

----------------------------------------------------------------------------
(* Value normaliser *)

PathIdKeys ==
    {s_path_id, s_m_PathID, s_m_PathId, s_pathID, s_PathID}

\* A normaliser that looks at the value it is given and not inside it.
serialize_value_top_level(value, key) ==
    IF value.t = "float" /\ value.k \in {"nan", "inf"} THEN VFloat(0)
    ELSE value

RECURSIVE serialize_value(_, _)
serialize_value(value, key) ==
    CASE value.t = "bytes" ->
            VDict(s__binary :> VBool(TRUE)
               @@ s__format :> VStr(s_base64)
               @@ s_size :> VInt(I(Len(value.bs)))
               @@ s_data :> VStr(b64encode(value.bs)))
      [] value.t \in {"ndarray", "npint", "npfloat"} ->
            serialize_value(tolist(value), NoKey)
      [] value.t = "float" ->
            IF value.k \in {"nan", "inf"} THEN VFloat(0) ELSE value
      [] IsInt(value) ->
            IF key \in PathIdKeys THEN VStr(IntToStr(AsInt(value)))
            ELSE VInt(AsInt(value))
      [] value.t \in {"list", "tuple"} ->
            VList([j \in DOMAIN value.items |->
                    serialize_value(value.items[j], key)])
      [] value.t = "dict" ->
            VDict([k \in DOMAIN value.d |-> serialize_value(value.d[k], k)])
      [] value.t = "object" ->
            serialize_value(VDict(value.attrs), NoKey)
      [] OTHER -> value

\* A second pass that leaves the document as the normaliser built it.
convert_pathids_skipped(obj) == obj

RECURSIVE convert_pathids_to_strings(_)
convert_pathids_to_strings(obj) ==
    CASE obj.t = "dict" ->
            VDict([key \in DOMAIN obj.d |->
                    IF key \in PathIdKeys /\ IsInt(obj.d[key])
                    THEN VStr(PyStr(obj.d[key]))
                    ELSE convert_pathids_to_strings(obj.d[key])])
      [] obj.t = "list" ->
            VList([j \in DOMAIN obj.items |->
                    convert_pathids_to_strings(obj.items[j])])
      [] OTHER -> obj

----------------------------------------------------------------------------
(* Object snapshot builder *)

\* d.get(name, default) on a dict value.
Get(d, name, default) ==
    IF name \in DOMAIN d.d THEN d.d[name] ELSE default

EmptyDict == VDict(<<>>)
EmptyList == VList(<<>>)

\* bool(v)
Truthy(v) ==
    CASE v.t = "none"  -> FALSE
      [] v.t = "bool"  -> v.b
      [] v.t = "int"   -> v.n # I(0)
      [] v.t = "float" -> ~(v.k = "fin" /\ v.u = 0)
      [] v.t = "str"   -> v.s # <<>>
      [] v.t = "bytes" -> v.bs # <<>>
      [] v.t \in {"list", "tuple"} -> v.items # <<>>
      [] v.t = "dict"  -> DOMAIN v.d # {}
      [] OTHER -> TRUE

\* len(v) of a list, a tuple or a byte string.
PyLen(v) == IF v.t = "bytes" THEN Len(v.bs) ELSE Len(v.items)

\* The text of the exception an external call raised.
ErrorText == s_error

\* extract_mesh_geometry: handler is the MeshHandler after process(), with
\* decode = "raises" when constructing or running it raised.
extract_mesh_geometry(handler) ==
    IF handler.decode = "raises" THEN
        VDict((s_error :> VStr(s_Failed_to_extract_geometry \o ErrorText)
                      @@ s_vertex_count :> VInt(I(0))
                      @@ s_index_count :> VInt(I(0))
                      @@ s_uv0 :> EmptyList
                      @@ s_uv1 :> EmptyList
                      @@ s_colors :> EmptyList))
    ELSE
        VDict((
            s_vertices :> (IF Truthy(handler.m_Vertices)
                         THEN handler.m_Vertices ELSE EmptyList)
            @@ s_vertex_count :> (IF Truthy(handler.m_Vertices)
                             THEN VInt(I(PyLen(handler.m_Vertices)))
                             ELSE VInt(I(0)))
            @@ s_indices :> (IF Truthy(handler.m_IndexBuffer)
                        THEN handler.m_IndexBuffer ELSE EmptyList)
            @@ s_index_count :> (IF Truthy(handler.m_IndexBuffer)
                            THEN VInt(I(PyLen(handler.m_IndexBuffer)))
                            ELSE VInt(I(0)))
            @@ s_uv0 :> (IF Truthy(handler.m_UV0)
                    THEN VList(handler.m_UV0.items) ELSE EmptyList)
            @@ s_uv1 :> (IF Truthy(handler.m_UV1)
                    THEN VList(handler.m_UV1.items) ELSE EmptyList)
            @@ s_colors :> EmptyList
            @@ s_has_normals :> VBool(Truthy(handler.m_Normals))
            @@ s_has_tangents :> VBool(Truthy(handler.m_Tangents))))

\* Lines 217-228: _geometry_info of a Mesh, from the raw property tree.
geometry_info(data) ==
    LET sub_meshes == Get(data, s_m_SubMeshes, EmptyList)
        sm == sub_meshes.items[1]
        stream == Get(data, s_m_StreamData, EmptyDict)
    IN  VDict((
            s_vertex_count :> Get(sm, s_vertexCount, VInt(I(0)))
            @@ s_index_count :> Get(sm, s_indexCount, VInt(I(0)))
            @@ s_topology :> Get(sm, s_topology, VInt(I(0)))
            @@ s_has_index_buffer :>
                VBool(PyLen(Get(data, s_m_IndexBuffer, EmptyList)) > 0)
            @@ s_has_compressed_mesh :>
                VBool(Truthy(Get(data, s_m_CompressedMesh, EmptyDict)))
            @@ s_has_stream_data :> VBool(Truthy(stream))
            @@ s_stream_size :> Get(stream, s_size, VInt(I(0)))))

\* Lines 212-231: the extra fields of a Mesh (the object was read).
mesh_extra(obj, data) ==
    (IF Truthy(Get(data, s_m_SubMeshes, EmptyList))
     THEN s__geometry_info :> geometry_info(data) ELSE <<>>)
        @@ (s__mesh_data :> extract_mesh_geometry(obj.mesh))

\* A channel default of 0.0 where the code has 1.0.
default_of_zero == VFloat(0)

One == VFloat(FloatUnit)
Zero == VFloat(0)

\* Lines 238-247: the name -> RGBA mapping of the saved colours.  A later
\* entry of a name replaces an earlier one.
material_colors(colors) ==
    LET named == {n \in DOMAIN colors.items :
                     colors.items[n].items[2].t = "dict"}
        last(name) == CHOOSE n \in named :
                        /\ colors.items[n].items[1].s = name
                        /\ \A m \in named :
                            colors.items[m].items[1].s = name => m <= n
    IN  [color_name \in {colors.items[n].items[1].s : n \in named} |->
            LET color_data == colors.items[last(color_name)].items[2]
            IN  VDict((s_r :> Get(color_data, s_r, One)
                              @@ s_g :> Get(color_data, s_g, One)
                              @@ s_b :> Get(color_data, s_b, One)
                              @@ s_a :> Get(color_data, s_a, One)))]

\* float(v) for an int, a bool or a float.
PyFloat(v) == IF v.t = "float" THEN v ELSE VFloat(IntVal(AsInt(v)) * FloatUnit)

\* Lines 254-258: the name -> float mapping of the saved floats.
material_floats(floats) ==
    LET named == {n \in DOMAIN floats.items :
                     IsNumber(floats.items[n].items[2])}
        last(name) == CHOOSE n \in named :
                        /\ floats.items[n].items[1].s = name
                        /\ \A m \in named :
                            floats.items[m].items[1].s = name => m <= n
    IN  [float_name \in {floats.items[n].items[1].s : n \in named} |->
            PyFloat(floats.items[last(float_name)].items[2])]

\* The file identifier of the reference where the code reads m_PathID.
tex_file_id(tex_data) ==
    LET tex_ref == Get(tex_data, s_m_Texture, EmptyDict)
    IN  IF tex_ref.t = "dict" THEN Get(tex_ref, s_m_FileID, VNone) ELSE VNone

\* Line 267-268: the identifier a texture environment refers to, or None.
tex_path_id(tex_data) ==
    LET tex_ref == Get(tex_data, s_m_Texture, EmptyDict)
    IN  IF tex_ref.t = "dict" THEN Get(tex_ref, s_m_PathID, VNone) ELSE VNone

\* Lines 263-282: the name -> texture binding mapping.
material_textures(tex_envs) ==
    LET bound == {n \in DOMAIN tex_envs.items :
                     LET tex_data == tex_envs.items[n].items[2]
                     IN  /\ Truthy(tex_data) /\ tex_data.t = "dict"
                         /\ Truthy(tex_path_id(tex_data))}
        last(name) == CHOOSE n \in bound :
                        /\ tex_envs.items[n].items[1].s = name
                        /\ \A m \in bound :
                            tex_envs.items[m].items[1].s = name => m <= n
    IN  [tex_name \in {tex_envs.items[n].items[1].s : n \in bound} |->
            LET tex_data == tex_envs.items[last(tex_name)].items[2]
                scale == Get(tex_data, s_m_Scale, EmptyDict)
                offset == Get(tex_data, s_m_Offset, EmptyDict)
            IN  VDict((
                    s_path_id :> VStr(PyStr(tex_path_id(tex_data)))
                    @@ s_scale :> (VDict((s_x :> (Get(scale, s_x, One))
                                           @@ s_y :> (Get(scale, s_y, One)))))
                    @@ s_offset :> (VDict((s_x :> (Get(offset, s_x, Zero))
                                            @@ s_y :> (Get(offset, s_y, Zero)))))))]

\* Lines 234-284: the extra fields of a Material.
material_extra(data) ==
    LET saved_props == Get(data, s_m_SavedProperties, EmptyDict)
        colors == material_colors(Get(saved_props, s_m_Colors, EmptyList))
        floats == material_floats(Get(saved_props, s_m_Floats, EmptyList))
        textures == material_textures(Get(saved_props, s_m_TexEnvs, EmptyList))
    IN  (IF DOMAIN colors # {} THEN s__colors :> VDict(colors) ELSE <<>>)
     @@ (IF s__Color \in DOMAIN colors
         THEN s__color :> VDict(colors[s__Color].d) ELSE <<>>)
     @@ (IF DOMAIN floats # {} THEN s__floats :> VDict(floats) ELSE <<>>)
     @@ (IF DOMAIN textures # {}
         THEN s__textures :> VDict(textures) ELSE <<>>)

\* Lines 202-208: the generic property tree, or the error body.
parsed_data(obj_reader) ==
    IF obj_reader.parse = "ok" THEN obj_reader.data
    ELSE VDict(s__error :> VStr(s_Failed_to_parse \o ErrorText)
            @@ s__type :> VStr(obj_reader.type))

\* Whether the body of create_object_snapshot raises: reading a Mesh does.
snapshot_raises(obj_reader) ==
    obj_reader.type = s_Mesh /\ obj_reader.read = "raises"

create_object_snapshot(obj_reader, path_id) ==
    IF snapshot_raises(obj_reader) THEN
        VDict((
            s_metadata :> (VDict((s_path_id :> (VStr(IntToStr(path_id)))
                                       @@ s_error :> (VStr(ErrorText)))))
            @@ s_data :> VNone))
    ELSE
        LET obj_type == obj_reader.type
            data == parsed_data(obj_reader)
            extra_info ==
                (IF obj_type = s_Mesh /\ data.t = "dict"
                 THEN mesh_extra(obj_reader, data) ELSE <<>>)
             @@ (IF obj_type = s_Material /\ data.t = "dict"
                 THEN material_extra(data) ELSE <<>>)
            snapshot == (
                s_metadata :> (VDict((
                    s_path_id :> (VStr(IntToStr(path_id)))
                    @@ s_class_id :> (VInt(I(obj_reader.class_id)))
                    @@ s_type :> (VStr(obj_type))
                    @@ s_byte_start :> (VInt(I(obj_reader.byte_start)))
                    @@ s_byte_size :> (VInt(I(obj_reader.byte_size))))))
                @@ s_data :> serialize_value(data, NoKey))
        IN  VDict(extra_info @@ snapshot)

----------------------------------------------------------------------------
(* Bundle snapshot orchestrator: generate_file_snapshots, step by step *)

\* A file of the output directory: absent, completely written with a
\* document, or cut short by a write that failed after the file was opened.
Absent == [state |-> "absent"]
Complete(doc) == [state |-> "complete", doc |-> doc]
Partial == [state |-> "partial"]

\* An output directory that does not exist yet.
FreshFs ==
    [dir |-> FALSE, manifest |-> Absent, summary |-> Absent,
     textures_index |-> Absent, textures |-> {}, objects_dir |-> FALSE,
     objects |-> <<>>]

\* json.dump raises TypeError on a value that is no JSON type.
RECURSIVE JsonSerializable(_)
JsonSerializable(v) ==
    CASE v.t \in {"bytes", "ndarray", "npint", "npfloat", "object"} -> FALSE
      [] v.t \in {"list", "tuple"} ->
            \A j \in DOMAIN v.items : JsonSerializable(v.items[j])
      [] v.t = "dict" -> \A k \in DOMAIN v.d : JsonSerializable(v.d[k])
      [] OTHER -> TRUE

\* A writer that opens the file with mode "a": what it writes follows what
\* the file held.
WriteJson_appending(old, doc, fault) ==
    IF fault = "open" THEN [file |-> old, raised |-> TRUE]
    ELSE IF fault = "io" \/ ~JsonSerializable(doc)
    THEN [file |-> Partial, raised |-> TRUE]
    ELSE IF old.state = "absent"
    THEN [file |-> Complete(doc), raised |-> FALSE]
    ELSE [file |-> [state |-> "appended"], raised |-> FALSE]

\* with open(path, "w") as f: json.dump(doc, f): the file it leaves and
\* whether it raised.  fault is what the file system does: "open" refuses the
\* open, "io" fails the write after the file was opened.
WriteJson(old, doc, fault) ==
    IF fault = "open" THEN [file |-> old, raised |-> TRUE]
    ELSE IF fault = "io" \/ ~JsonSerializable(doc)
    THEN [file |-> Partial, raised |-> TRUE]
    ELSE [file |-> Complete(doc), raised |-> FALSE]

\* str() of the declared version.
RECURSIVE JoinInts(_)
JoinInts(items) ==
    IF Len(items) = 1 THEN IntToStr(I(items[1]))
    ELSE IntToStr(I(items[1])) \o <<",", " ">> \o JoinInts(Tail(items))

VersionStr(version) ==
    CASE version.kind = "int" -> IntToStr(I(version.v))
      [] version.kind = "str" -> version.s
      [] version.kind = "tuple" ->
            IF version.items = <<>> THEN <<"(", ")">>
            ELSE IF Len(version.items) = 1
            THEN <<"(">> \o IntToStr(I(version.items[1])) \o <<",", ")">>
            ELSE <<"(">> \o JoinInts(version.items) \o <<")">>

\* s.split('.')[0]
RECURSIVE FirstSegment(_)
FirstSegment(s) ==
    IF s = <<>> \/ Head(s) = "." THEN <<>>
    ELSE <<Head(s)>> \o FirstSegment(Tail(s))

Zeros(n) == [k \in 1..n |-> 0]

\* Lines 336-342.  raised: int() refused the first segment of the string.
resolve_version(version) ==
    LET unity_version ==
            IF version.kind = "absent" THEN [kind |-> "int", v |-> 2022]
            ELSE version
    IN  CASE unity_version.kind = "int" ->
                [raised |-> FALSE, tuple |-> <<unity_version.v, 0, 0, 0>>]
          [] unity_version.kind = "tuple" ->
                [raised |-> FALSE,
                 tuple |-> unity_version.items
                            \o Zeros(IF Len(unity_version.items) < 4
                                     THEN 4 - Len(unity_version.items)
                                     ELSE 0)]
          [] OTHER ->
                LET first == FirstSegment(unity_version.s)
                IN  IF IsDecimalString(first)
                    THEN [raised |-> FALSE,
                          tuple |-> <<IntVal(StrToInt(first)), 0, 0, 0>>]
                    ELSE [raised |-> TRUE, tuple |-> <<>>]

\* Lines 354-363: the manifest.
build_metadata(b) ==
    VDict((
        s_bundle_name :> VStr(b.stem)
        @@ s_file_name :> VStr(b.stem \o s_dot_hhh)
        @@ s_file_size :> VInt(I(b.file_size))
        @@ s_unity_version :> (IF b.version.kind = "absent"
                          THEN VStr(s_Unknown)
                          ELSE VStr(VersionStr(b.version)))
        @@ s_platform :> VStr(b.platform)
        @@ s_header_version :> VInt(I(b.header_version))
        @@ s_endianness :> VStr(IF b.big_endian THEN s_big ELSE s_little)
        @@ s_object_count :> VInt(I(Len(b.objects)))))

\* A tally that records the types seen without counting them.
type_counts_not_incremented(objects) ==
    [type_name \in {objects[n].type : n \in DOMAIN objects} |-> VInt(I(1))]

\* Lines 366-379.
type_counts(objects) ==
    [type_name \in {objects[n].type : n \in DOMAIN objects} |->
        VInt(I(Cardinality({n \in DOMAIN objects :
                                objects[n].type = type_name})))]

object_list(objects) ==
    [n \in DOMAIN objects |->
        VDict((s_path_id :> VStr(IntToStr(objects[n].path_id))
                      @@ s_class_id :> VInt(I(objects[n].class_id))
                      @@ s_type :> VStr(objects[n].type)
                      @@ s_byte_start :> VInt(I(objects[n].byte_start))
                      @@ s_byte_size :> VInt(I(objects[n].byte_size))))]

\* Lines 381-385: the summary.
build_summary(b) ==
    VDict((s_total_objects :> VInt(I(Len(b.objects)))
                  @@ s_objects_by_type :> VDict(type_counts(b.objects))
                  @@ s_object_list :> VList(object_list(b.objects))))

\* extract_texture_to_png: the name of the image saved for a Texture2D, as
\* f"tex_{obj.path_id}" with the extension.
texture_file(obj) == s_tex_ \o IntToStr(obj.path_id) \o s_dot_png

\* collect_textures_from_bundle: identifier string -> relative image path of
\* every Texture2D that could be read, decoded and saved.
collect_textures_from_bundle(objects) ==
    LET saved == {n \in DOMAIN objects :
                    objects[n].type = s_Texture2D /\ objects[n].tex = "ok"}
    IN  [key \in {IntToStr(objects[n].path_id) : n \in saved} |->
            VStr(s_textures_tex_ \o key \o s_dot_png)]

\* f"{i:03d}"
ZeroPad3(i) ==
    LET digits == IntToStr(I(i))
    IN  [k \in 1..(IF Len(digits) < 3 THEN 3 - Len(digits) ELSE 0) |-> "0"]
            \o digits

\* Line 427: f"{i:03d}_{type_name}_{obj.path_id}.json"
object_filename(i, obj) ==
    ZeroPad3(i) \o <<"_">> \o obj.type \o <<"_">>
        \o IntToStr(obj.path_id) \o s_dot_json

\* A file opened for writing: which one and, for an object document, its index.
LogEntry(what, i) == [what |-> what, i |-> i]

\* The local state of one call: where it is, the output directory, the
\* value returned, the loop index, and what it did so far.
InitialFrame(fs0) ==
    [pc |-> "start", fs |-> fs0, ret |-> VNone, idx |-> 0,
     version_tuple |-> <<>>, texture_map |-> <<>>, attempted |-> <<>>,
     log |-> <<>>]

\* Lines 444-447: the handler of the outer try.
Failed(f) == [f EXCEPT !.pc = "done", !.ret = VNone]

\* A loader without the test for an empty list of asset files.
load_step_unchecked(f, b) ==
    IF b.load = "raises" THEN Failed(f)
    ELSE IF b.load = "no_files"
    THEN [f EXCEPT !.pc = "done", !.ret = VNone]
    ELSE [f EXCEPT !.pc = "loaded"]

\* Lines 316-333.
load_step(f, b) ==
    IF b.load = "raises" THEN Failed(f)
    ELSE IF b.load = "no_files" \/ b.container = "bundle_no_assets"
    THEN [f EXCEPT !.pc = "done", !.ret = VNone]
    ELSE [f EXCEPT !.pc = "loaded"]

\* Lines 335-342.
version_step(f, b) ==
    LET r == resolve_version(b.version)
    IN  IF r.raised THEN Failed(f)
        ELSE [f EXCEPT !.pc = "resolved", !.version_tuple = r.tuple]

\* Lines 344-388: metadata and summary are built, the directory is made.
output_dir_step(f, b) ==
    IF b.env.output_dir = "fails" THEN Failed(f)
    ELSE [f EXCEPT !.pc = "textures", !.fs.dir = TRUE]

\* Lines 390-405.
textures_step(f, b) ==
    LET map == collect_textures_from_bundle(b.objects)
        pngs == {texture_file(b.objects[n]) : n \in
                    {m \in DOMAIN b.objects :
                        b.objects[m].type = s_Texture2D
                            /\ b.objects[m].tex = "ok"}}
        w == WriteJson(f.fs.textures_index,
                       convert_pathids_to_strings(VDict(map)), b.env.index)
    IN  [f EXCEPT !.pc = "manifest",
                  !.texture_map = map,
                  !.fs.textures = @ \cup pngs,
                  !.fs.textures_index = IF DOMAIN map # {} THEN w.file ELSE @,
                  !.log = IF DOMAIN map # {} /\ b.env.index # "open"
                          THEN Append(@, LogEntry("textures_index", 0)) ELSE @]

\* Lines 407-410.
manifest_step(f, b) ==
    LET w == WriteJson(f.fs.manifest,
                       convert_pathids_to_strings(build_metadata(b)),
                       b.env.manifest)
        g == [f EXCEPT !.fs.manifest = w.file,
                       !.log = IF b.env.manifest # "open"
                               THEN Append(@, LogEntry("manifest", 0)) ELSE @]
    IN  IF w.raised THEN Failed(g) ELSE [g EXCEPT !.pc = "summary"]

\* A summary step that writes the texture index after the summary.
summary_step_then_index(f, b) ==
    LET w == WriteJson(f.fs.summary,
                       convert_pathids_to_strings(build_summary(b)),
                       b.env.summary)
        g == [f EXCEPT !.fs.summary = w.file,
                       !.log = IF b.env.summary # "open"
                               THEN Append(@, LogEntry("summary", 0)) ELSE @]
        h == [g EXCEPT !.log = IF DOMAIN f.texture_map # {}
                               THEN Append(@, LogEntry("textures_index", 0))
                               ELSE @]
    IN  IF w.raised THEN Failed(g) ELSE [h EXCEPT !.pc = "objects_dir"]

\* Lines 412-415.
summary_step(f, b) ==
    LET w == WriteJson(f.fs.summary,
                       convert_pathids_to_strings(build_summary(b)),
                       b.env.summary)
        g == [f EXCEPT !.fs.summary = w.file,
                       !.log = IF b.env.summary # "open"
                               THEN Append(@, LogEntry("summary", 0)) ELSE @]
    IN  IF w.raised THEN Failed(g) ELSE [g EXCEPT !.pc = "objects_dir"]

\* Lines 417-419.
objects_dir_step(f, b) ==
    IF b.env.objects_dir = "fails" THEN Failed(f)
    ELSE [f EXCEPT !.pc = "objects", !.fs.objects_dir = TRUE]

\* The file of name in the objects directory.
ObjectFile(dir, name) ==
    IF name \in DOMAIN dir.objects THEN dir.objects[name] ELSE Absent

\* An iteration without the try around the object: a failure on the object
\* reaches the handler of the outer try.
object_step_unguarded(f, b) ==
    LET i == f.idx
        obj == b.objects[i + 1]
        snapshot == create_object_snapshot(obj, obj.path_id)
        filename == object_filename(i, obj)
        w == WriteJson(ObjectFile(f.fs, filename),
                       convert_pathids_to_strings(snapshot), obj.write)
        g == [f EXCEPT !.idx = i + 1,
                       !.attempted = Append(@, i),
                       !.fs.objects = IF obj.write = "open" THEN @
                                      ELSE (filename :> w.file) @@ @,
                       !.log = IF obj.write = "open" THEN @
                               ELSE Append(@, LogEntry("object", i))]
    IN  IF w.raised THEN Failed(g) ELSE g

\* Lines 421-438: one iteration of the loop, for i = f.idx.
object_step(f, b) ==
    LET i == f.idx
        obj == b.objects[i + 1]
        snapshot == create_object_snapshot(obj, obj.path_id)
        filename == object_filename(i, obj)
        w == WriteJson(ObjectFile(f.fs, filename),
                       convert_pathids_to_strings(snapshot), obj.write)
    IN  [f EXCEPT !.idx = i + 1,
                  !.attempted = Append(@, i),
                  !.fs.objects = IF obj.write = "open" THEN @
                                 ELSE (filename :> w.file) @@ @,
                  !.log = IF obj.write = "open" THEN @
                          ELSE Append(@, LogEntry("object", i))]

\* Lines 440-442.
return_step(f, b) == [f EXCEPT !.pc = "done", !.ret = build_metadata(b)]

\* The next step of a call that has not returned.
Step(f, b) ==
    CASE f.pc = "start"       -> load_step(f, b)
      [] f.pc = "loaded"      -> version_step(f, b)
      [] f.pc = "resolved"    -> output_dir_step(f, b)
      [] f.pc = "textures"    -> textures_step(f, b)
      [] f.pc = "manifest"    -> manifest_step(f, b)
      [] f.pc = "summary"     -> summary_step(f, b)
      [] f.pc = "objects_dir" -> objects_dir_step(f, b)
      [] f.pc = "objects"     ->
            IF f.idx < Len(b.objects) THEN object_step(f, b)
            ELSE return_step(f, b)

RECURSIVE RunToEnd(_, _)
RunToEnd(f, b) == IF f.pc = "done" THEN f ELSE RunToEnd(Step(f, b), b)

\* A whole call on bundle b with the output directory in state fs0.
generate_file_snapshots(fs0, b) == RunToEnd(InitialFrame(fs0), b)

----------------------------------------------------------------------------
(* Idle values of the runs a specification does not exercise *)

IdleSer ==
    /\ sv_pc = "idle" /\ sv_in = VNone /\ sv_key = NoKey
    /\ sv_out = VNone /\ sv_conv = VNone

IdleCmp ==
    /\ cv_pc = "idle" /\ cv_a = VNone /\ cv_b = VNone
    /\ cv_ab = <<>> /\ cv_ba = <<>>

IdleName == fn_pc = "idle" /\ fn_in = <<>> /\ fn_out = <<>>

IdleSnap == os_pc = "idle" /\ os_in = <<>> /\ os_out = VNone

IdleOrch ==
    /\ pc = "idle" /\ bundle = <<>> /\ fs = <<>> /\ ret = VNone /\ idx = 0
    /\ version_tuple = <<>> /\ texture_map = <<>> /\ attempted = <<>>
    /\ log = <<>> /\ run = 0 /\ fs_first = <<>> /\ ret_first = VNone
    /\ log_first = <<>>

IdleMain ==
    /\ m_pc = "idle" /\ m_in = <<>> /\ m_files = <<>> /\ m_k = 0
    /\ m_call = <<>>
    /\ m_results = <<>> /\ m_out = <<>> /\ m_index = <<>> /\ exit_code = -1

----------------------------------------------------------------------------
(* Runs of the value normaliser: serialize_value on a tree, then            *)
(* convert_pathids_to_strings on its result, as create_object_snapshot and  *)
(* generate_file_snapshots chain them.                                      *)

\* Longest list, tuple or array drawn as an input.
MaxLen == 2

\* 2^53 + 1, the example identifier of the specification, and the ends of the
\* signed 64-bit range.
Above2Pow53 == Big(FALSE, <<9,0,0,7,1,9,9,2,5,4,7,4,0,9,9,3>>)
NegSample   == Big(TRUE, <<8,9,1,1,8,7,8,7,2,6,3,9,7,6,7,6,1,2,1>>)
Int64Max    == Big(FALSE, <<9,2,2,3,3,7,2,0,3,6,8,5,4,7,7,5,8,0,7>>)
Int64Min    == Big(TRUE, <<9,2,2,3,3,7,2,0,3,6,8,5,4,7,7,5,8,0,8>>)

Identifiers == {I(0), I(5), I(-1), Above2Pow53, NegSample, Int64Max, Int64Min}

SeqsUpTo(S, n) == UNION {[1..k -> S] : k \in 0..n}

SerKeys == {s_m_PathID, s_path_id, s_name}

SerCore == {VInt(I(7)), VInt(NegSample), VNpInt(I(5)), VNaN}

SerScalars ==
    {VInt(x) : x \in Identifiers}
        \cup {VNpInt(Int64Max), VNpInt(I(5)), VNpFloat(VNaN), VNpFloat(VFloat(15))}
        \cup {VFloat(15), VNaN, VInf, VNegInf}
        \cup {VBool(TRUE), VBool(FALSE), VNone, VStr(s_a),
              VBytes(<<>>), VBytes(<<77>>), VBytes(<<77, 255>>),
              VBytes(<<77, 255, 0, 16>>)}

SerSeqs ==
    {VList(xs) : xs \in SeqsUpTo(SerCore, MaxLen)}
        \cup {VTuple(xs) : xs \in SeqsUpTo({VInt(I(7)), VNpInt(I(5))}, MaxLen)}
        \cup {VNdArray(xs) :
                xs \in SeqsUpTo({VNpInt(I(5)), VNpInt(Int64Max)}, MaxLen)}
        \cup {VList(<<VList(<<x>>)>>) : x \in SerCore}
        \cup {VNdArray(<<VNdArray(<<VNpInt(I(5))>>)>>)}

SerFlat == SerScalars \cup SerSeqs

SerDicts ==
    {VDict(k :> v) : k \in SerKeys, v \in SerFlat}
        \cup {VDict((s_m_PathID :> v) @@ (s_name :> w)) :
                v \in SerCore, w \in SerCore}

SerSmallDicts == {VDict(k :> v) : k \in SerKeys, v \in SerCore}

SerNested ==
    {VList(<<d>>) : d \in SerSmallDicts}
        \cup {VDict(k :> d) : k \in SerKeys, d \in SerSmallDicts}
        \cup {VObject(d.d) : d \in SerSmallDicts}
        \cup {VDict(k :> VObject(d.d)) : k \in SerKeys, d \in SerSmallDicts}
        \cup {VDict(k :> VList(<<d, v>>)) :
                k \in SerKeys, d \in SerSmallDicts, v \in {VInt(I(7))}}

\* Floats, finite and not, inside each kind of container.
SerFloatScalars == {VNaN, VInf, VNegInf, VFloat(15), VFloat(-1), VFloat(0)}

SerFloats ==
    {VTuple(<<x, VFloat(15)>>) : x \in SerFloatScalars}
        \cup {VDict(k :> VTuple(<<x>>)) : k \in SerKeys, x \in SerFloatScalars}
        \cup {VObject(s_x :> x) : x \in SerFloatScalars}
        \cup {VList(<<VDict(s_x :> VList(<<x>>))>>) : x \in SerFloatScalars}
        \cup {VNdArray(<<VNpFloat(x), VNpFloat(VFloat(15))>>) :
                x \in SerFloatScalars}

SerTrees == SerFlat \cup SerDicts \cup SerNested \cup SerFloats

InitSer ==
    /\ sv_pc = "start"
    /\ sv_in \in SerTrees
    /\ sv_key \in SerKeys \cup {NoKey}
    /\ sv_out = VNone
    /\ sv_conv = VNone
    /\ IdleCmp /\ IdleName /\ IdleOrch /\ IdleMain /\ IdleSnap

Serialize ==
    /\ sv_pc = "start"
    /\ sv_out' = serialize_value(sv_in, sv_key)
    /\ sv_pc' = "serialized"
    /\ UNCHANGED <<sv_in, sv_key, sv_conv, cmpVars, nameVars, snapVars, orchVars, mainVars>>

Convert ==
    /\ sv_pc = "serialized"
    /\ sv_conv' = convert_pathids_to_strings(sv_out)
    /\ sv_pc' = "converted"
    /\ UNCHANGED <<sv_in, sv_key, sv_out, cmpVars, nameVars, snapVars, orchVars, mainVars>>

NextSer == Serialize \/ Convert

SpecSer == InitSer /\ [][NextSer]_vars

\* Every integer scalar of tree v reached under an identifier key (directly
\* or through sequences that are the value of such a key) is, at the same
\* place of w, the decimal string of its exact value; every integer scalar
\* reached under another key, or under none, is the same integer.
RECURSIVE KeyedIntsNormalised(_, _, _)
KeyedIntsNormalised(v, w, key) ==
    CASE v.t \in {"int", "npint"} ->
            IF key \in PathIdKeys
            THEN w.t = "str" /\ IsDecimalString(w.s) /\ StrToInt(w.s) = v.n
            ELSE w = VInt(v.n)
      [] v.t \in {"list", "tuple", "ndarray"} ->
            /\ w.t = "list"
            /\ Len(w.items) = Len(v.items)
            /\ \A j \in DOMAIN v.items :
                    KeyedIntsNormalised(v.items[j], w.items[j], key)
      [] v.t = "dict" ->
            /\ w.t = "dict"
            /\ DOMAIN w.d = DOMAIN v.d
            /\ \A k \in DOMAIN v.d : KeyedIntsNormalised(v.d[k], w.d[k], k)
      [] v.t = "object" ->
            /\ w.t = "dict"
            /\ DOMAIN w.d = DOMAIN v.attrs
            /\ \A k \in DOMAIN v.attrs :
                    KeyedIntsNormalised(v.attrs[k], w.d[k], k)
      [] OTHER -> TRUE

\* C2: for any input tree, serialize_value turns every integer scalar reached
\* under an identifier key into the decimal string of its exact value, at
\* every depth and inside sequences that are the value of such a key, and
\* leaves integers reached under any other key as integers.
C2_KeyedIntegersBecomeStrings ==
    sv_pc \in {"serialized", "converted"}
        => KeyedIntsNormalised(sv_in, sv_out, sv_key)

\* Tree w is tree v with every NaN or infinite float replaced by 0.0 and
\* every other float left as it is, at every depth: sequences, tuples and
\* arrays element by element, mappings and attribute bags key by key.
RECURSIVE FloatsSubstituted(_, _)
FloatsSubstituted(v, w) ==
    CASE v.t = "float" -> w = IF v.k = "fin" THEN v ELSE VFloat(0)
      [] v.t = "npfloat" -> FloatsSubstituted(v.f, w)
      [] v.t \in {"list", "tuple", "ndarray"} ->
            /\ w.t = "list"
            /\ Len(w.items) = Len(v.items)
            /\ \A j \in DOMAIN v.items :
                    FloatsSubstituted(v.items[j], w.items[j])
      [] v.t = "dict" ->
            /\ w.t = "dict"
            /\ DOMAIN w.d = DOMAIN v.d
            /\ \A k \in DOMAIN v.d : FloatsSubstituted(v.d[k], w.d[k])
      [] v.t = "object" ->
            /\ w.t = "dict"
            /\ DOMAIN w.d = DOMAIN v.attrs
            /\ \A k \in DOMAIN v.attrs :
                    FloatsSubstituted(v.attrs[k], w.d[k])
      [] OTHER -> TRUE

\* C12: serialize_value returns for every tree, and in its result every NaN,
\* +Infinity or -Infinity of the tree is 0.0, at any depth (inside mappings,
\* sequences, tuples, arrays and attribute bags), while every other float
\* has exactly the value it had.
C12_NonFiniteFloatsBecomeZero ==
    sv_pc \in {"serialized", "converted"} => FloatsSubstituted(sv_in, sv_out)

\* A mapping holding a tuple with -Infinity in it was normalised.
C12_Witness ==
    /\ sv_pc = "serialized"
    /\ sv_in = VDict(s_name :> VTuple(<<VNegInf>>))
    /\ sv_out = VDict(s_name :> VList(<<VFloat(0)>>))

----------------------------------------------------------------------------
(* Snapshot comparator (tests/test_snapshot_validation.py) *)

skip_keys == {s_timestamp, s_file_path}

\* 1e-6 in float units.
Tolerance == FloatUnit \div Pow10(6)

\* abs(val1 - val2) > 1e-6 for two floats: a NaN operand makes the difference
\* NaN, as do two infinities of one sign, and NaN > x is false.
FloatsDiffer(val1, val2) ==
    CASE val1.k = "nan" \/ val2.k = "nan" -> FALSE
      [] val1.k = "inf" /\ val2.k = "inf" -> val1.u # val2.u
      [] val1.k = "inf" \/ val2.k = "inf" -> TRUE
      [] OTHER -> Abs(val1.u - val2.u) > Tolerance

\* Python's == on two numbers (bool, int, float).
NumEq(a, b) ==
    CASE a.t = "float" /\ b.t = "float" ->
            a.k # "nan" /\ b.k # "nan" /\ a.k = b.k /\ a.u = b.u
      [] a.t = "float" ->
            /\ a.k = "fin" /\ a.u % FloatUnit = 0
            /\ I(a.u \div FloatUnit) = AsInt(b)
      [] b.t = "float" ->
            /\ b.k = "fin" /\ b.u % FloatUnit = 0
            /\ I(b.u \div FloatUnit) = AsInt(a)
      [] OTHER -> AsInt(a) = AsInt(b)

\* Python's == where compare_values applies it: the operands are not both
\* None, not both floats, not both lists and not both dicts.
PyEq(a, b) ==
    CASE IsNumber(a) /\ IsNumber(b) -> NumEq(a, b)
      [] a.t = "str" /\ b.t = "str" -> a.s = b.s
      [] OTHER -> FALSE

Difference(path, kind) == [path |-> path, kind |-> kind]

\* A comparison of basic types that accepts the rendered integer on the
\* second side only.
scalar_differences_one_way(val1, val2, path) ==
    IF ~PyEq(val1, val2) THEN
        IF val2.t = "str" /\ IsInt(val1) /\ val2.s = PyStr(val1) THEN <<>>
        ELSE <<Difference(path, "!=")>>
    ELSE <<>>

\* Lines 115-126: the comparison of basic types.
scalar_differences(val1, val2, path) ==
    IF ~PyEq(val1, val2) THEN
        IF val1.t = "str" /\ IsInt(val2) /\ val1.s = PyStr(val2) THEN <<>>
        ELSE IF val2.t = "str" /\ IsInt(val1) /\ val2.s = PyStr(val1) THEN <<>>
        ELSE <<Difference(path, "!=")>>
    ELSE <<>>

\* The order in which a set of keys is iterated.  Python leaves the order of
\* a set open; only the order of the reported differences depends on it.
RECURSIVE KeyOrder(_)
KeyOrder(S) ==
    IF S = {} THEN <<>>
    ELSE LET k == CHOOSE x \in S :
                    \A y \in S : x = y \/ StrLess(x, y)
         IN  <<k>> \o KeyOrder(S \ {k})

RECURSIVE Flatten(_)
Flatten(seqs) ==
    IF seqs = <<>> THEN <<>> ELSE Head(seqs) \o Flatten(Tail(seqs))

SkippedPath(path) == \E key \in skip_keys : Contains(path, key)

IndexPath(path, i) == path \o <<"[">> \o IntToStr(I(i)) \o <<"]">>

KeyPath(path, key) ==
    IF path # <<>> THEN path \o <<".">> \o key ELSE key

RECURSIVE compare_values(_, _, _)
compare_values(val1, val2, path) ==
    IF SkippedPath(path) THEN <<>>
    ELSE IF val1.t = "none" /\ val2.t = "none" THEN <<>>
    ELSE IF val1.t = "none" \/ val2.t = "none" THEN
        <<Difference(path, "!=")>>
    ELSE IF val1.t = "float" /\ val2.t = "float" THEN
        IF FloatsDiffer(val1, val2)
        THEN <<Difference(path, "float diff > 1e-6")>> ELSE <<>>
    ELSE IF val1.t = "list" /\ val2.t = "list" THEN
        IF Len(val1.items) # Len(val2.items)
        THEN <<Difference(path, "list length")>>
        ELSE Flatten([i \in DOMAIN val1.items |->
                compare_values(val1.items[i], val2.items[i],
                               IndexPath(path, i - 1))])
    ELSE IF val1.t = "dict" /\ val2.t = "dict" THEN
        LET all_keys == KeyOrder(DOMAIN val1.d \cup DOMAIN val2.d)
        IN  Flatten([n \in DOMAIN all_keys |->
                LET key == all_keys[n]
                    key_path == KeyPath(path, key)
                IN  IF key \notin DOMAIN val1.d
                    THEN <<Difference(key_path, "missing in first")>>
                    ELSE IF key \notin DOMAIN val2.d
                    THEN <<Difference(key_path, "missing in second")>>
                    ELSE compare_values(val1.d[key], val2.d[key], key_path)])
    ELSE scalar_differences(val1, val2, path)

CmpKeys ==
    {s_timestamp, s_file_path, s_old_timestamp, s_a}

CmpCore == {VInt(I(1)), VStr(IntToStr(I(1))), VFloat(FloatUnit)}

CmpPair == {VInt(I(1)), VInt(I(2))}

CmpLeaves ==
    {VNone, VBool(TRUE), VInt(I(1)), VInt(I(2)), VInt(NegSample),
     VFloat(FloatUnit), VFloat(FloatUnit + Tolerance \div 2),
     VFloat(FloatUnit + 2 * Tolerance), VNaN, VInf,
     VStr(IntToStr(I(1))), VStr(IntToStr(NegSample)), VStr(s_True),
     VStr(s_a)}

CmpLists == {VList(xs) : xs \in SeqsUpTo(CmpCore, MaxLen)}

CmpDicts ==
    {VDict(d) : d \in UNION {[K -> CmpPair] : K \in SUBSET CmpKeys}}

CmpSmallDicts ==
    {VDict(k :> v) : k \in CmpKeys, v \in CmpPair} \cup {VDict(<<>>)}

CmpNested ==
    {VDict(k :> d) : k \in CmpKeys, d \in CmpSmallDicts}
        \cup {VList(<<d>>) : d \in CmpSmallDicts}
        \cup {VDict(k :> VList(<<x>>)) : k \in CmpKeys, x \in CmpPair}

CmpTrees == CmpLeaves \cup CmpLists \cup CmpDicts \cup CmpNested

InitCmp ==
    /\ cv_pc = "start"
    /\ cv_a \in CmpTrees
    /\ cv_b \in CmpTrees
    /\ cv_ab = <<>>
    /\ cv_ba = <<>>
    /\ IdleSer /\ IdleName /\ IdleOrch /\ IdleMain /\ IdleSnap

CompareAB ==
    /\ cv_pc = "start"
    /\ cv_ab' = compare_values(cv_a, cv_b, <<>>)
    /\ cv_pc' = "forward"
    /\ UNCHANGED <<cv_a, cv_b, cv_ba, serVars, nameVars, snapVars, orchVars, mainVars>>

CompareBA ==
    /\ cv_pc = "forward"
    /\ cv_ba' = compare_values(cv_b, cv_a, <<>>)
    /\ cv_pc' = "done"
    /\ UNCHANGED <<cv_a, cv_b, cv_ab, serVars, nameVars, snapVars, orchVars, mainVars>>

NextCmp == CompareAB \/ CompareBA

SpecCmp == InitCmp /\ [][NextCmp]_vars

\* C9: compare_values(A, B) is empty if and only if compare_values(B, A) is.
C9_ComparatorSymmetry ==
    cv_pc = "done" => ((cv_ab = <<>>) <=> (cv_ba = <<>>))

\* A string and an integer that compare as equal in both directions through
\* the string/integer coercion.
C9_Witness ==
    /\ cv_pc = "done"
    /\ cv_a.t = "str" /\ cv_b.t = "int"
    /\ cv_ab = <<>> /\ cv_ba = <<>>

\* Trees a and b are the same everywhere except at paths that contain a skip
\* keyword, where they may differ in any way, a key on one side only included.
RECURSIVE SameOutsideSkipped(_, _, _)
SameOutsideSkipped(a, b, path) ==
    IF SkippedPath(path) THEN TRUE
    ELSE IF a.t = "dict" /\ b.t = "dict" THEN
        \A key \in DOMAIN a.d \cup DOMAIN b.d :
            \/ SkippedPath(KeyPath(path, key))
            \/ /\ key \in DOMAIN a.d
               /\ key \in DOMAIN b.d
               /\ SameOutsideSkipped(a.d[key], b.d[key], KeyPath(path, key))
    ELSE IF a.t = "list" /\ b.t = "list" THEN
        /\ Len(a.items) = Len(b.items)
        /\ \A i \in DOMAIN a.items :
                SameOutsideSkipped(a.items[i], b.items[i],
                                   IndexPath(path, i - 1))
    ELSE a = b

\* C10: two trees that differ only at paths containing a skip keyword, a
\* skip-keyword key present on one side only included, compare as equal.
C10_SkippedPathsNeverReported ==
    cv_pc \in {"forward", "done"} /\ SameOutsideSkipped(cv_a, cv_b, <<>>)
        => cv_ab = <<>>

----------------------------------------------------------------------------
(* Bundles and output directories the orchestrator is run on *)

\* Most objects of a bundle drawn as an input.
MaxObjects == 2

NoHandler ==
    [decode |-> "ok", m_Vertices |-> VNone, m_IndexBuffer |-> VNone,
     m_UV0 |-> VNone, m_UV1 |-> VNone, m_Normals |-> VNone,
     m_Tangents |-> VNone]

DecodedHandler ==
    [decode |-> "ok",
     m_Vertices |-> VList(<<VTuple(<<Zero, One, VFloat(15)>>)>>),
     m_IndexBuffer |-> VList(<<VInt(I(0)), VInt(I(0)), VInt(I(0))>>),
     m_UV0 |-> VTuple(<<VTuple(<<Zero, One>>)>>),
     m_UV1 |-> VNone,
     m_Normals |-> VList(<<VTuple(<<Zero, Zero, One>>)>>),
     m_Tangents |-> VNone]

PPtr(path_id) ==
    VDict((s_m_FileID :> VInt(I(0)) @@ s_m_PathID :> path_id))

GameObjectData ==
    VDict((
        s_m_Name :> VStr(s_a)
        @@ s_m_IsActive :> VBool(TRUE)
        @@ s_m_Component :> (VList(<<VDict((s_component :> (PPtr(VInt(NegSample))))),
                    VDict((s_component :> (PPtr(VNpInt(Int64Max)))))>>))
        @@ s_m_Script :> VBytes(<<77, 255>>)))

MeshData ==
    VDict((
        s_m_Name :> VStr(s_a)
        @@ s_m_SubMeshes :> (VList(<<VDict((s_vertexCount :> (VInt(I(1)))
                                  @@ s_indexCount :> (VInt(I(3)))
                                  @@ s_topology :> (VInt(I(0)))))>>))
        @@ s_m_IndexBuffer :> VBytes(<<0, 0, 0>>)
        @@ s_m_CompressedMesh :> EmptyDict
        @@ s_m_StreamData :> (VDict((s_offset :> (VInt(I(0)))
                                       @@ s_size :> (VInt(I(0))))))))

Color(r, g, b) == VDict((s_r :> r @@ s_g :> g @@ s_b :> b @@ s_a :> One))

TexEnv(path_id) ==
    VDict((s_m_Texture :> PPtr(VInt(path_id))
                  @@ s_m_Scale :> VDict((s_x :> (One) @@ s_y :> (One)))
                  @@ s_m_Offset :> VDict((s_x :> (Zero) @@ s_y :> (Zero)))))

MaterialData ==
    VDict((
        s_m_Name :> VStr(s_a)
        @@ s_m_Shader :> PPtr(VInt(I(0)))
        @@ s_m_SavedProperties :> (VDict((
            s_m_Colors :> (VList(<<VTuple(<<VStr(s__Color), Color(One, Zero, Zero)>>)>>))
            @@ s_m_Floats :> (VList(<<VTuple(<<VStr(s__Mode), VInt(I(2))>>)>>))
            @@ s_m_TexEnvs :> (VList(<<VTuple(<<VStr(s__MainTex), TexEnv(Int64Min)>>),
                        VTuple(<<VStr(s__BumpMap), TexEnv(I(0))>>)>>)))))))

Obj(type, path_id, class_id, data) ==
    [type |-> type, path_id |-> path_id, class_id |-> class_id,
     byte_start |-> 4096, byte_size |-> 128,
     parse |-> "ok", data |-> data, read |-> "ok", mesh |-> NoHandler,
     tex |-> "none", write |-> "ok"]

GameObjectOk == Obj(s_GameObject, I(5), 1, GameObjectData)
GameObjectUnparsed ==
    [Obj(s_GameObject, NegSample, 1, VNone) EXCEPT !.parse = "raises"]
GameObjectUnwritten == [GameObjectOk EXCEPT !.write = "io"]
MeshOk ==
    [Obj(s_Mesh, Above2Pow53, 43, MeshData) EXCEPT !.mesh = DecodedHandler]
MeshUnread ==
    [Obj(s_Mesh, I(7), 43, MeshData) EXCEPT !.read = "raises"]
MaterialOk == Obj(s_Material, Int64Max, 21, MaterialData)
TextureOk ==
    [Obj(s_Texture2D, Int64Min, 28, EmptyDict) EXCEPT !.tex = "ok"]
TextureUndecoded ==
    [Obj(s_Texture2D, I(-1), 28, EmptyDict) EXCEPT !.write = "open"]

ObjectCatalog ==
    {GameObjectOk, GameObjectUnparsed, GameObjectUnwritten, MeshOk,
     MeshUnread, MaterialOk, TextureOk, TextureUndecoded}

EnvOk ==
    [output_dir |-> "ok", index |-> "ok", manifest |-> "ok",
     summary |-> "ok", objects_dir |-> "ok"]

\* The file system refuses at most one of the bundle-level operations.
Envs ==
    {EnvOk,
     [EnvOk EXCEPT !.output_dir = "fails"],
     [EnvOk EXCEPT !.index = "open"],
     [EnvOk EXCEPT !.index = "io"],
     [EnvOk EXCEPT !.manifest = "open"],
     [EnvOk EXCEPT !.manifest = "io"],
     [EnvOk EXCEPT !.summary = "open"],
     [EnvOk EXCEPT !.summary = "io"],
     [EnvOk EXCEPT !.objects_dir = "fails"]}

Bundle(objects, env) ==
    [load |-> "ok", container |-> "bundle",
     version |-> [kind |-> "int", v |-> 22],
     stem |-> s_BambooCopter_head, file_size |-> 1000,
     platform |-> s_StandaloneWindows64, header_version |-> 22,
     big_endian |-> FALSE, objects |-> objects, env |-> env]

Versions ==
    {[kind |-> "absent"],
     [kind |-> "int", v |-> 2022],
     [kind |-> "tuple", items |-> <<>>],
     [kind |-> "tuple", items |-> <<2022, 3>>],
     [kind |-> "tuple", items |-> <<2022, 3, 1, 0>>],
     [kind |-> "tuple", items |-> <<2022, 3, 1, 0, 5>>],
     [kind |-> "str", s |-> <<"2","0","2","2",".","3",".","1","f","1">>],
     [kind |-> "str", s |-> <<"2","0","2","2">>],
     [kind |-> "str", s |-> <<"f","1">>]}

Bundles ==
    {Bundle(objects, env) :
        objects \in SeqsUpTo(ObjectCatalog, MaxObjects), env \in Envs}
    \cup {[Bundle(<<GameObjectOk>>, EnvOk) EXCEPT !.load = l] :
            l \in {"raises", "no_files"}}
    \cup {[Bundle(<<GameObjectOk>>, EnvOk) EXCEPT !.container = c] :
            c \in {"bundle_no_assets", "serialized"}}
    \cup {[Bundle(objects, EnvOk) EXCEPT !.version = v, !.big_endian = TRUE] :
            objects \in {<<>>, <<TextureOk>>}, v \in Versions}

\* What an earlier snapshot of a bundle of the same name, which held a
\* texture, left in the output directory.
StaleFs == generate_file_snapshots(FreshFs, Bundle(<<TextureOk>>, EnvOk)).fs

Frame ==
    [pc |-> pc, fs |-> fs, ret |-> ret, idx |-> idx,
     version_tuple |-> version_tuple, texture_map |-> texture_map,
     attempted |-> attempted, log |-> log]

Apply(f) ==
    /\ pc' = f.pc /\ fs' = f.fs /\ ret' = f.ret /\ idx' = f.idx
    /\ version_tuple' = f.version_tuple /\ texture_map' = f.texture_map
    /\ attempted' = f.attempted /\ log' = f.log

OtherRuns == <<serVars, cmpVars, nameVars, snapVars, mainVars>>
Caller == <<bundle, run, fs_first, ret_first, log_first>>

Init ==
    /\ bundle \in Bundles
    /\ fs \in IF bundle.env = EnvOk THEN {FreshFs, StaleFs} ELSE {FreshFs}
    /\ pc = "start" /\ ret = VNone /\ idx = 0
    /\ version_tuple = <<>> /\ texture_map = <<>>
    /\ attempted = <<>> /\ log = <<>>
    /\ run = 1 /\ fs_first = FreshFs /\ ret_first = VNone /\ log_first = <<>>
    /\ IdleSer /\ IdleCmp /\ IdleName /\ IdleMain /\ IdleSnap

LoadBundle ==
    /\ pc = "start"
    /\ Apply(load_step(Frame, bundle))
    /\ UNCHANGED <<Caller, OtherRuns>>

ResolveVersion ==
    /\ pc = "loaded"
    /\ Apply(version_step(Frame, bundle))
    /\ UNCHANGED <<Caller, OtherRuns>>

CreateOutputDir ==
    /\ pc = "resolved"
    /\ Apply(output_dir_step(Frame, bundle))
    /\ UNCHANGED <<Caller, OtherRuns>>

ExtractTextures ==
    /\ pc = "textures"
    /\ Apply(textures_step(Frame, bundle))
    /\ UNCHANGED <<Caller, OtherRuns>>

WriteManifest ==
    /\ pc = "manifest"
    /\ Apply(manifest_step(Frame, bundle))
    /\ UNCHANGED <<Caller, OtherRuns>>

WriteSummary ==
    /\ pc = "summary"
    /\ Apply(summary_step(Frame, bundle))
    /\ UNCHANGED <<Caller, OtherRuns>>

CreateObjectsDir ==
    /\ pc = "objects_dir"
    /\ Apply(objects_dir_step(Frame, bundle))
    /\ UNCHANGED <<Caller, OtherRuns>>

WriteObject ==
    /\ pc = "objects"
    /\ idx < Len(bundle.objects)
    /\ Apply(object_step(Frame, bundle))
    /\ UNCHANGED <<Caller, OtherRuns>>

ReturnManifest ==
    /\ pc = "objects"
    /\ idx = Len(bundle.objects)
    /\ Apply(return_step(Frame, bundle))
    /\ UNCHANGED <<Caller, OtherRuns>>

\* The caller regenerates the snapshot: a second call with the same bundle
\* and the same output directory.
RunAgain ==
    /\ pc = "done"
    /\ run = 1
    /\ run' = 2
    /\ fs_first' = fs /\ ret_first' = ret /\ log_first' = log
    /\ Apply(InitialFrame(fs))
    /\ UNCHANGED <<bundle, OtherRuns>>

Next ==
    \/ LoadBundle \/ ResolveVersion \/ CreateOutputDir \/ ExtractTextures
    \/ WriteManifest \/ WriteSummary \/ CreateObjectsDir \/ WriteObject
    \/ ReturnManifest \/ RunAgain

Spec == Init /\ [][Next]_vars

\* The documents the output directory holds.
DocumentsOnDisk ==
    {f.doc : f \in {g \in {fs.manifest, fs.summary, fs.textures_index}
                            \cup {fs.objects[n] : n \in DOMAIN fs.objects} :
                        g.state = "complete"}}

\* Every field of v named by an identifier key, at any depth, holds a string
\* matching ^-?[0-9]+$ that parsing and rendering again leaves unchanged.
RECURSIVE PathIdsAreDecimalStrings(_)
PathIdsAreDecimalStrings(v) ==
    CASE v.t = "dict" ->
            \A k \in DOMAIN v.d :
                IF k \in PathIdKeys
                THEN /\ v.d[k].t = "str"
                     /\ IsDecimalString(v.d[k].s)
                     /\ IntToStr(StrToInt(v.d[k].s)) = v.d[k].s
                ELSE PathIdsAreDecimalStrings(v.d[k])
      [] v.t \in {"list", "tuple"} ->
            \A j \in DOMAIN v.items : PathIdsAreDecimalStrings(v.items[j])
      [] OTHER -> TRUE

\* C1: in every document written (manifest, summary, texture index, object
\* documents), every field named by an identifier key, at any depth, holds a
\* decimal string that survives parsing and rendering again, for
\* identifiers over the signed 64-bit range.
C1_IdentifierRoundTrip ==
    \A doc \in DocumentsOnDisk : PathIdsAreDecimalStrings(doc)

\* The document of the GameObject is on disk and the component reference
\* that held the numpy integer 2^63 - 1 holds its decimal string.
C1_Witness ==
    /\ pc = "done"
    /\ \E n \in DOMAIN fs.objects :
        /\ fs.objects[n].state = "complete"
        /\ s_data \in DOMAIN fs.objects[n].doc.d
        /\ LET data == fs.objects[n].doc.d[s_data]
           IN  /\ data.t = "dict"
               /\ s_m_Component \in DOMAIN data.d
               /\ Get(Get(data.d[s_m_Component].items[2],
                          s_component, EmptyDict), s_m_PathID, VNone)
                    = VStr(IntToStr(Int64Max))

FirstIndexes(n) == [k \in 1..n |-> k - 1]

\* C3: a failure on the object at position i does not abort the pass: the
\* loop takes the objects in enumeration order, and a pass that reached the
\* loop has attempted every object and returns the manifest, whatever
\* failed on the way; create_object_snapshot returns a document (a mapping
\* with metadata and data) for every object.
C3_ObjectFailureDoesNotAbort ==
    /\ pc = "objects" => attempted = FirstIndexes(idx)
    /\ pc = "done" /\ attempted # <<>> =>
        /\ attempted = FirstIndexes(Len(bundle.objects))
        /\ ret = build_metadata(bundle)
    /\ \A n \in DOMAIN bundle.objects :
        LET doc == create_object_snapshot(bundle.objects[n],
                                          bundle.objects[n].path_id)
        IN  /\ doc.t = "dict"
            /\ {s_metadata, s_data} \subseteq DOMAIN doc.d
            /\ Get(Get(doc, s_metadata, EmptyDict), s_path_id, VNone)
                = VStr(IntToStr(bundle.objects[n].path_id))

\* The first object could not be read and the second one, attempted after
\* it, has its document on disk.
C3_Witness ==
    /\ pc = "done"
    /\ Len(bundle.objects) = 2
    /\ bundle.objects[1] = MeshUnread
    /\ bundle.objects[2] = GameObjectOk
    /\ attempted = <<0, 1>>
    /\ ObjectFile(fs, object_filename(1, GameObjectOk)).state = "complete"

Loaded(b) == b.load = "ok" /\ b.container # "bundle_no_assets"

\* C4 as stated: the call returns the manifest whenever the bundle was
\* loaded with at least one asset file, and None only otherwise.
C4_NoneOnlyWhenNotLoaded ==
    pc = "done" =>
        IF Loaded(bundle) THEN ret = build_metadata(bundle) ELSE ret = VNone

\* A step outside the texture extraction and the object loop raised.
FatalStepFails(b) ==
    \/ resolve_version(b.version).raised
    \/ b.env.output_dir = "fails"
    \/ b.env.manifest # "ok"
    \/ b.env.summary # "ok"
    \/ b.env.objects_dir = "fails"

\* C4 amended: the call always ends by returning; it returns None when the
\* bundle could not be loaded, holds no asset file, or a step outside the
\* texture extraction and the object loop raised, and the manifest otherwise.
C4_NoneWhenNotLoadedOrFatalStep ==
    pc = "done" =>
        IF Loaded(bundle) /\ ~FatalStepFails(bundle)
        THEN ret = build_metadata(bundle) ELSE ret = VNone

\* A loaded bundle whose manifest could not be written: None is returned.
C4_Witness ==
    /\ pc = "done"
    /\ Loaded(bundle)
    /\ bundle.env.manifest = "open"
    /\ ret = VNone

\* C5: after a call that returned the manifest, textures_index.json is in
\* the output directory only if that call extracted at least one texture,
\* whatever the directory held before.
C5_TextureIndexOnlyIfExtracted ==
    pc = "done" /\ ret # VNone /\ fs.textures_index.state # "absent"
        => DOMAIN texture_map # {}

\* C7: a second call on the same bundle and output directory leaves what
\* the first one left (manifest.json, summary.json, the object files and
\* with them the counts), returns the same, and writes again every file the
\* first call wrote.
C7_RegenerationIdempotent ==
    pc = "done" /\ run = 2 =>
        /\ fs = fs_first
        /\ ret = ret_first
        /\ log = log_first

\* A second call that returned the manifest after writing two object
\* documents, the texture index, the manifest and the summary again.
C7_Witness ==
    /\ pc = "done" /\ run = 2
    /\ ret # VNone
    /\ fs.manifest.state = "complete"
    /\ fs.textures_index.state = "complete"
    /\ Cardinality(DOMAIN fs.objects) = 2
    /\ Len(log) = 5

\* Whether the files opened for writing so far were opened in the order
\* Rank gives them, none of them twice.
WrittenInOrder(Rank(_)) ==
    \A j, k \in DOMAIN log : j < k => Rank(log[j]) < Rank(log[k])

\* The place of a file in the order the specification states: manifest,
\* summary, texture index, object documents by index.
StatedRank(e) ==
    CASE e.what = "manifest"       -> 0
      [] e.what = "summary"        -> 1
      [] e.what = "textures_index" -> 2
      [] e.what = "object"         -> 3 + e.i

\* The place of a file in the order of the code: texture index, manifest,
\* summary, object documents by index.
CodeRank(e) ==
    CASE e.what = "textures_index" -> 0
      [] e.what = "manifest"       -> 1
      [] e.what = "summary"        -> 2
      [] e.what = "object"         -> 3 + e.i

\* C17 as stated: the files of a call are written in the order
\* manifest.json, summary.json, textures_index.json (if any), then the
\* object documents in enumeration order; no later file is written before
\* an earlier one.
C17_WriteOrderAsStated == WrittenInOrder(StatedRank)

\* C17 amended: the files of a call are written in the order
\* textures_index.json (if any texture was extracted), manifest.json,
\* summary.json, then the object documents in enumeration order; no later
\* file is written before an earlier one.
C17_WriteOrderIndexFirst == WrittenInOrder(CodeRank)

\* A call wrote the texture index, the manifest, the summary and two object
\* documents, and returned.
C17_Witness ==
    /\ pc = "done"
    /\ log = <<LogEntry("textures_index", 0), LogEntry("manifest", 0),
               LogEntry("summary", 0), LogEntry("object", 0),
               LogEntry("object", 1)>>

\* Whether the call opened file `what` for writing.
Opened(what) == \E j \in DOMAIN log : log[j].what = what

\* The call got as far as persisting: the bundle was loaded, its version
\* resolved, and the output and objects directories could be made.
ReachesPersisting(b) ==
    /\ Loaded(b)
    /\ ~resolve_version(b.version).raised
    /\ b.env.output_dir = "ok"
    /\ b.env.objects_dir = "ok"

\* C18: the writes of the manifest, the summary, the texture index and the
\* object documents are independent of each other's success: whichever of
\* them fails, every other file that can be opened is still written, and
\* every object is still attempted.
C18_WritesAreIndependent ==
    pc = "done" /\ ReachesPersisting(bundle) =>
        /\ bundle.env.manifest # "open" => Opened("manifest")
        /\ bundle.env.summary # "open" => Opened("summary")
        /\ DOMAIN collect_textures_from_bundle(bundle.objects) # {}
                /\ bundle.env.index # "open"
            => Opened("textures_index")
        /\ attempted = [i \in 1..Len(bundle.objects) |-> i - 1]

\* The digits a string starts with.
RECURSIVE LeadingDigits(_)
LeadingDigits(s) ==
    IF s = <<>> \/ ~IsDigit(Head(s)) THEN <<>>
    ELSE <<Head(s)>> \o LeadingDigits(Tail(s))

\* The numbers a dotted version string declares, in order: "2022.3.1f1"
\* declares 2022, 3 and 1.
RECURSIVE DottedNumbers(_)
DottedNumbers(s) ==
    LET first == FirstSegment(s)
        digits == LeadingDigits(first)
    IN  (IF digits = <<>> THEN <<>> ELSE <<IntVal(StrToInt(digits))>>)
            \o (IF Len(first) >= Len(s) THEN <<>>
                ELSE DottedNumbers(SubSeq(s, Len(first) + 2, Len(s))))

\* The components a declared version has: an integer is its own single
\* component, and an assets file without a version counts as 2022.
DeclaredComponents(version) ==
    CASE version.kind = "absent" -> <<2022>>
      [] version.kind = "int"    -> <<version.v>>
      [] version.kind = "tuple"  -> version.items
      [] version.kind = "str"    -> DottedNumbers(version.s)

\* C19: for an integer, a tuple of any length or a version string (one that
\* declares a number), version resolution always yields a tuple of exactly
\* 4 components: the declared components in order, and 0 for the trailing
\* ones that are missing.
C19_VersionHasFourComponents ==
    /\ Loaded(bundle) /\ pc \notin {"start", "loaded"}
    /\ bundle.version.kind = "str" => DottedNumbers(bundle.version.s) # <<>>
    =>
        LET declared == DeclaredComponents(bundle.version)
        IN  /\ Len(version_tuple) = 4
            /\ \A i \in 1..4 :
                version_tuple[i] =
                    IF i <= Len(declared) THEN declared[i] ELSE 0

\* The sum of the counts of a type -> count mapping.
RECURSIVE SumCounts(_)
SumCounts(counts) ==
    IF DOMAIN counts = {} THEN 0
    ELSE LET t == CHOOSE u \in DOMAIN counts : TRUE
         IN  IntVal(counts[t].n)
                + SumCounts([u \in DOMAIN counts \ {t} |-> counts[u]])

\* The indexes of the object documents this call wrote completely.
DocumentsWritten ==
    {i \in 0..(Len(bundle.objects) - 1) :
        /\ \E j \in DOMAIN log : log[j] = LogEntry("object", i)
        /\ ObjectFile(fs, object_filename(i, bundle.objects[i + 1])).state
                = "complete"}

\* This call wrote the manifest and the summary.
ManifestAndSummaryWritten ==
    /\ Opened("manifest") /\ fs.manifest.state = "complete"
    /\ Opened("summary") /\ fs.summary.state = "complete"

----------------------------------------------------------------------------
(* Runs of the object file naming: the names the loop of                    *)
(* generate_file_snapshots gives to the objects at two positions of one     *)
(* bundle.                                                                  *)

\* Positions around the widths of the index: one, two, three and four digits.
Positions == {0, 9, 10, 99, 100, 101, 999, 1000, 1001}

InitName ==
    /\ fn_pc = "start"
    /\ fn_in \in {[i |-> i, j |-> j, first |-> a, second |-> b] :
                    i \in Positions, j \in Positions,
                    a \in ObjectCatalog, b \in ObjectCatalog}
    /\ fn_in.i < fn_in.j
    /\ fn_out = <<>>
    /\ IdleSer /\ IdleCmp /\ IdleOrch /\ IdleMain /\ IdleSnap

NameObjects ==
    /\ fn_pc = "start"
    /\ fn_out' = <<object_filename(fn_in.i, fn_in.first),
                   object_filename(fn_in.j, fn_in.second)>>
    /\ fn_pc' = "named"
    /\ UNCHANGED <<fn_in, snapVars, serVars, cmpVars, orchVars, mainVars>>

NextName == NameObjects

SpecName == InitName /\ [][NextName]_vars

\* The leading digits of a file name, up to the first underscore.
RECURSIVE IndexPart(_)
IndexPart(name) ==
    IF name = <<>> \/ ~IsDigit(Head(name)) THEN <<>>
    ELSE <<Head(name)>> \o IndexPart(Tail(name))

\* C6: the objects at positions i < j of a bundle get different file names,
\* each starting with the three digits of its position, and the name of the
\* first sorts before the name of the second, so that the sorted names list
\* the objects in summary order.
C6_NamesSortInSummaryOrder ==
    fn_pc = "named" =>
        /\ fn_out[1] # fn_out[2]
        /\ Len(IndexPart(fn_out[1])) = 3 /\ Len(IndexPart(fn_out[2])) = 3
        /\ StrToInt(IndexPart(fn_out[1])) = I(fn_in.i)
        /\ StrToInt(IndexPart(fn_out[2])) = I(fn_in.j)
        /\ StrLess(fn_out[1], fn_out[2])

----------------------------------------------------------------------------
(* The command-line entry point *)

\* os.path.basename: what follows the last separator.
RECURSIVE basename(_)
basename(path) ==
    IF Contains(path, <<"/">>) THEN basename(Tail(path)) ELSE path

\* Path(file_path).stem: the base name without its last suffix.
RECURSIVE DropSuffix(_)
DropSuffix(name) ==
    IF name = <<>> THEN <<>>
    ELSE IF name[Len(name)] = "." THEN SubSeq(name, 1, Len(name) - 1)
    ELSE DropSuffix(SubSeq(name, 1, Len(name) - 1))

PathStem(path) ==
    LET name == basename(path)
    IN  IF name # <<>> /\ Contains(Tail(name), <<".">>)
        THEN DropSuffix(name) ELSE name

\* A check of the arguments that only refuses too few of them.
check_arguments_at_least(in) ==
    IF in.argc < 3 THEN [exit |-> 1, files |-> <<>>]
    ELSE IF in.path = "missing" THEN [exit |-> 1, files |-> <<>>]
    ELSE IF in.path = "file"
    THEN [exit |-> -1, files |-> KeyOrder(DOMAIN in.found)]
    ELSE IF DOMAIN in.found = {} THEN [exit |-> 1, files |-> <<>>]
    ELSE [exit |-> -1, files |-> KeyOrder(DOMAIN in.found)]

\* Lines 451-470: the arguments are checked and the bundle files found.
\* in.argc is len(sys.argv); in.path says what the input path is; in.found
\* maps each bundle file under it (or the file itself) to what it holds.
check_arguments(in) ==
    IF in.argc # 3 THEN [exit |-> 1, files |-> <<>>]
    ELSE IF in.path = "missing" THEN [exit |-> 1, files |-> <<>>]
    ELSE IF in.path = "file"
    THEN [exit |-> -1, files |-> KeyOrder(DOMAIN in.found)]
    ELSE IF DOMAIN in.found = {} THEN [exit |-> 1, files |-> <<>>]
    ELSE [exit |-> -1, files |-> KeyOrder(DOMAIN in.found)]

\* Lines 487-496: the cross-bundle index built from the results.
build_index(results, out) ==
    LET named == {n \in DOMAIN results :
                    /\ Truthy(Get(results[n], s_bundle_name, VNone))
                    /\ Get(results[n], s_bundle_name, VNone).s \in DOMAIN out
                    /\ out[Get(results[n], s_bundle_name, VNone).s].objects_dir}
        names == {Get(results[n], s_bundle_name, VNone).s : n \in named}
    IN  VDict([name \in names |->
            LET listing == KeyOrder(DOMAIN out[name].objects)
            IN  VDict((s_objects :> (VList([k \in DOMAIN listing |-> VStr(listing[k])]))))])

\* Bundle files under the input directory; two of them have the same stem.
BundlePaths == {s_a_hhh, s_b_hhh, s_sub_a_hhh}

\* What a bundle file may hold: a bundle that is snapshotted in full, one
\* with an object that cannot be read, a file that cannot be loaded, and a
\* bundle whose manifest cannot be written.
BundleContents ==
    {Bundle(<<GameObjectOk>>, EnvOk),
     Bundle(<<TextureOk, MeshUnread>>, EnvOk),
     [Bundle(<<GameObjectOk>>, EnvOk) EXCEPT !.load = "raises"],
     Bundle(<<GameObjectOk>>, [EnvOk EXCEPT !.manifest = "io"])}

Invocations ==
    {[argc |-> n, path |-> "missing", found |-> <<>>, index |-> "ok"] :
        n \in {1, 2, 3, 4}}
    \cup {[argc |-> n, path |-> "file", found |-> (p :> b), index |-> x] :
            n \in {2, 3, 4}, p \in BundlePaths, b \in BundleContents,
            x \in {"ok", "open", "io"}}
    \cup {[argc |-> n, path |-> "dir", found |-> f, index |-> x] :
            n \in {2, 3, 4},
            f \in UNION {[P -> BundleContents] : P \in SUBSET BundlePaths},
            x \in {"ok", "open", "io"}}

InitMain ==
    /\ m_pc = "start"
    /\ m_in \in Invocations
    /\ m_files = <<>> /\ m_k = 0 /\ m_call = <<>> /\ m_results = <<>>
    /\ m_out = [stem \in {PathStem(p) : p \in BundlePaths} |-> FreshFs]
    /\ m_index = Absent
    /\ exit_code = -1
    /\ IdleSer /\ IdleCmp /\ IdleName /\ IdleOrch /\ IdleSnap

CheckArguments ==
    /\ m_pc = "start"
    /\ LET r == check_arguments(m_in)
       IN  /\ m_files' = r.files
           /\ exit_code' = r.exit
           /\ m_pc' = IF r.exit = -1 THEN "loop" ELSE "exited"
    /\ UNCHANGED <<m_in, m_k, m_call, m_results, m_out, m_index,
                   serVars, cmpVars, nameVars, snapVars, orchVars>>

\* Lines 475-484: one iteration of the loop over sorted(files); m_call is
\* the call of generate_file_snapshots it makes, with what the call returned
\* and the output directory it left.
SnapshotFile ==
    /\ m_pc = "loop"
    /\ m_k < Len(m_files)
    /\ LET file_path == m_files[m_k + 1]
           stem == PathStem(file_path)
       IN  /\ m_call' = generate_file_snapshots(
                    m_out[stem], [m_in.found[file_path] EXCEPT !.stem = stem])
           /\ m_out' = [m_out EXCEPT ![stem] = m_call'.fs]
           /\ m_results' = IF Truthy(m_call'.ret)
                           THEN Append(m_results, m_call'.ret)
                           ELSE m_results
    /\ m_k' = m_k + 1
    /\ UNCHANGED <<m_pc, m_in, m_files, m_index, exit_code,
                   serVars, cmpVars, nameVars, snapVars, orchVars>>

\* Lines 486-506: the index is built and written; nothing catches what the
\* write raises, and the interpreter then exits with code 1.
WriteIndex ==
    /\ m_pc = "loop"
    /\ m_k = Len(m_files)
    /\ LET w == WriteJson(m_index, build_index(m_results, m_out), m_in.index)
       IN  /\ m_index' = w.file
           /\ exit_code' = IF w.raised THEN 1 ELSE 0
    /\ m_pc' = "exited"
    /\ UNCHANGED <<m_in, m_files, m_k, m_call, m_results, m_out,
                   serVars, cmpVars, nameVars, snapVars, orchVars>>

NextMain == CheckArguments \/ SnapshotFile \/ WriteIndex

SpecMain == InitMain /\ [][NextMain]_vars

\* C8 as stated: main exits with code 1 when the argument count is wrong
\* or the input path does not exist, and with code 0 in every other case.
C8_ExitOneOnlyOnBadArguments ==
    m_pc = "exited" =>
        exit_code = IF m_in.argc # 3 \/ m_in.path = "missing" THEN 1 ELSE 0

\* C8 amended: main exits with code 1 when the argument count is wrong, the
\* input path does not exist, the input directory holds no bundle file, or
\* writing the cross-bundle index raises; it exits with code 0 in every
\* other case, whatever bundles failed to produce a snapshot.
C8_ExitOneOnBadInvocationOrIndex ==
    m_pc = "exited" =>
        exit_code = IF \/ m_in.argc # 3
                       \/ m_in.path = "missing"
                       \/ m_in.path = "dir" /\ DOMAIN m_in.found = {}
                       \/ m_in.index # "ok"
                    THEN 1 ELSE 0

\* main exited with code 0 although one bundle of three gave no snapshot.
C8_Witness ==
    /\ m_pc = "exited"
    /\ exit_code = 0
    /\ Len(m_files) = 3
    /\ Len(m_results) = 2
    /\ m_index.state = "complete"

----------------------------------------------------------------------------
(* Runs of the object snapshot builder: create_object_snapshot on one       *)
(* object reader.                                                           *)

\* A MeshHandler whose construction or process() raises, and one that
\* decoded a vertex with a NaN coordinate.
RaisingHandler == [NoHandler EXCEPT !.decode = "raises"]
NaNHandler ==
    [DecodedHandler EXCEPT
        !.m_Vertices = VList(<<VTuple(<<VNaN, One, Zero>>)>>)]

SnapHandlers == {NoHandler, DecodedHandler, RaisingHandler, NaNHandler}

\* Raw property trees of meshes: one sub-mesh; no sub-mesh list; an empty
\* sub-mesh list; a streamed mesh whose first sub-mesh leaves fields out.
MeshStreamedData ==
    VDict((
        s_m_Name :> VStr(s_a)
        @@ s_m_SubMeshes :>
            VList(<<VDict(s_vertexCount :> VInt(I(4))),
                    VDict(s_vertexCount :> VInt(I(9))
                       @@ s_indexCount :> VInt(I(6))
                       @@ s_topology :> VInt(I(1)))>>)
        @@ s_m_IndexBuffer :> VBytes(<<>>)
        @@ s_m_CompressedMesh :> VDict(s_size :> VInt(I(1)))
        @@ s_m_StreamData :> VDict(s_offset :> VInt(I(0))
                                @@ s_size :> VInt(I(64)))))

SnapMeshData ==
    {MeshData,
     MeshStreamedData,
     VDict(s_m_Name :> VStr(s_a)),
     VDict(s_m_Name :> VStr(s_a) @@ s_m_SubMeshes :> EmptyList)}

\* Saved colours of a material, as (name, RGBA mapping) pairs.
SnapColors ==
    {<<>>,
     <<VTuple(<<VStr(s__Color), Color(One, Zero, Zero)>>)>>,
     <<VTuple(<<VStr(s__color), Color(Zero, One, Zero)>>)>>,
     <<VTuple(<<VStr(s__Color), VDict(s_r :> Zero @@ s_a :> VFloat(5))>>)>>,
     <<VTuple(<<VStr(s__EmissionColor), Color(Zero, Zero, One)>>),
       VTuple(<<VStr(s__Color), Color(VNaN, VInf, Zero)>>)>>,
     <<VTuple(<<VStr(s__EmissionColor), Color(Zero, Zero, One)>>),
       VTuple(<<VStr(s__color), EmptyDict>>)>>}

\* Texture environments of a material, as (name, binding) pairs.
SnapTexEnvs ==
    {<<>>,
     <<VTuple(<<VStr(s__MainTex), TexEnv(Int64Min)>>)>>,
     <<VTuple(<<VStr(s__MainTex), TexEnv(I(0))>>)>>,
     <<VTuple(<<VStr(s__MainTex), VDict(s_m_Texture :> PPtr(VInt(I(7))))>>)>>,
     <<VTuple(<<VStr(s__MainTex),
                VDict(s_m_Scale :> VDict(s_x :> One @@ s_y :> One))>>)>>,
     <<VTuple(<<VStr(s__MainTex), EmptyDict>>)>>,
     <<VTuple(<<VStr(s__MainTex),
                VDict(s_m_Texture :> PPtr(VInt(Above2Pow53))
                   @@ s_m_Scale :> VDict(s_x :> VFloat(5))
                   @@ s_m_Offset :> VDict(s_y :> VFloat(15)))>>),
       VTuple(<<VStr(s__BumpMap), TexEnv(I(0))>>)>>}

SnapMaterialData ==
    {VDict(s_m_Name :> VStr(s_a)
        @@ s_m_SavedProperties :>
            VDict(s_m_Colors :> VList(colors)
               @@ s_m_Floats :>
                    VList(<<VTuple(<<VStr(s__Mode), VInt(I(2))>>)>>)
               @@ s_m_TexEnvs :> VList(tex_envs))) :
        colors \in SnapColors, tex_envs \in SnapTexEnvs}
    \cup {MaterialData, VDict(s_m_Name :> VStr(s_a))}

\* The object readers create_object_snapshot is run on.
SnapReaders ==
    {[Obj(s_Mesh, Above2Pow53, 43, data) EXCEPT
        !.parse = p, !.read = r, !.mesh = handler] :
        data \in SnapMeshData, p \in {"ok", "raises"},
        r \in {"ok", "raises"}, handler \in SnapHandlers}
    \cup {[Obj(s_Material, Int64Max, 21, data) EXCEPT !.parse = p] :
            data \in SnapMaterialData, p \in {"ok", "raises"}}
    \cup {GameObjectOk, GameObjectUnparsed, TextureOk}

InitSnap ==
    /\ os_pc = "start"
    /\ os_in \in SnapReaders
    /\ os_out = VNone
    /\ IdleSer /\ IdleCmp /\ IdleName /\ IdleOrch /\ IdleMain

CreateSnapshot ==
    /\ os_pc = "start"
    /\ os_out' = create_object_snapshot(os_in, os_in.path_id)
    /\ os_pc' = "done"
    /\ UNCHANGED <<os_in, serVars, cmpVars, nameVars, orchVars, mainVars>>

NextSnap == CreateSnapshot

SpecSnap == InitSnap /\ [][NextSnap]_vars

\* Tree v, reached under key, is as the value normaliser leaves a tree:
\* no NaN or infinite float, no byte string, and under an identifier key
\* nothing but strings (or containers of them).
RECURSIVE IsNormalised(_, _)
IsNormalised(v, key) ==
    CASE v.t \in {"list", "tuple"} ->
            \A j \in DOMAIN v.items : IsNormalised(v.items[j], key)
      [] v.t = "dict" ->
            \A k \in DOMAIN v.d : IsNormalised(v.d[k], k)
      [] v.t = "float" -> v.k = "fin" /\ key \notin PathIdKeys
      [] v.t = "bytes" -> FALSE
      [] OTHER -> key \in PathIdKeys => v.t = "str"

\* C11: every document create_object_snapshot returns is normalised as a
\* whole, the type-specific extra fields included: nowhere in it is there a
\* NaN or infinite float, a raw byte string, or a value other than a string
\* under an identifier key.
C11_DocumentsAreNormalised ==
    os_pc = "done" => IsNormalised(os_out, NoKey)

\* Document doc is the placeholder of reader obj whose parse failed: a body
\* of exactly _error (a message) and _type (the type tag), under metadata
\* that carries the identifier string, type tag, class code and byte range.
ParseFailureDocument(obj, doc) ==
    LET body == doc.d[s_data]
        metadata == doc.d[s_metadata]
    IN  /\ body.t = "dict"
        /\ DOMAIN body.d = {s__error, s__type}
        /\ body.d[s__error].t = "str"
        /\ body.d[s__type] = VStr(obj.type)
        /\ metadata.t = "dict"
        /\ {s_path_id, s_type, s_class_id, s_byte_start, s_byte_size}
                \subseteq DOMAIN metadata.d
        /\ metadata.d[s_path_id] = VStr(IntToStr(obj.path_id))
        /\ metadata.d[s_type] = VStr(obj.type)
        /\ metadata.d[s_class_id] = VInt(I(obj.class_id))
        /\ metadata.d[s_byte_start] = VInt(I(obj.byte_start))
        /\ metadata.d[s_byte_size] = VInt(I(obj.byte_size))

\* C13: when the parser fails, create_object_snapshot returns, for any type
\* tag (Mesh and Material included), a document whose data body is exactly
\* {_error, _type} and whose metadata still carries the identifier string,
\* the type tag, the class code and the byte range.
C13_ParseFailureGivesPlaceholder ==
    os_pc = "done" /\ os_in.parse = "raises"
        => ParseFailureDocument(os_in, os_out)

\* The saved colours, floats or texture environments (list `name`) of the
\* raw property tree of a material.
SavedList(data, name) ==
    Get(Get(data, s_m_SavedProperties, EmptyDict), name, EmptyList).items

\* C14: for a Material, `_color` is present exactly when the saved colours
\* hold an entry named exactly `_Color`; it is then equal to
\* `_colors._Color`, and each of its channels r, g, b, a is the entry's
\* value, or 1.0 when the entry has no such channel.
C14_MainColorIffNamedColor ==
    os_pc = "done" /\ os_in.type = s_Material /\ os_in.parse = "ok" =>
        LET colors == SavedList(os_in.data, s_m_Colors)
            named == {n \in DOMAIN colors :
                        colors[n].items[1] = VStr(s__Color)}
        IN  /\ (s__color \in DOMAIN os_out.d) <=> (named # {})
            /\ \A n \in named :
                /\ os_out.d[s__color] = os_out.d[s__colors].d[s__Color]
                /\ \A channel \in {s_r, s_g, s_b, s_a} :
                    os_out.d[s__color].d[channel] =
                        Get(colors[n].items[2], channel, VFloat(Pow10(7)))

\* A material whose `_Color` entry has only the channels r and a was
\* snapshotted: g and b of `_color` are 1.0.
C14_Witness ==
    /\ os_pc = "done"
    /\ os_in.type = s_Material /\ os_in.parse = "ok"
    /\ SavedList(os_in.data, s_m_Colors) =
        <<VTuple(<<VStr(s__Color), VDict(s_r :> Zero @@ s_a :> VFloat(5))>>)>>
    /\ os_out.d[s__color] =
        VDict(s_r :> Zero @@ s_g :> VFloat(Pow10(7))
           @@ s_b :> VFloat(Pow10(7)) @@ s_a :> VFloat(5))

\* The identifier of the texture that texture environment e references,
\* None when it references none.
ReferencedTexture(e) ==
    IF /\ e.t = "dict" /\ s_m_Texture \in DOMAIN e.d
       /\ e.d[s_m_Texture].t = "dict"
       /\ s_m_PathID \in DOMAIN e.d[s_m_Texture].d
    THEN e.d[s_m_Texture].d[s_m_PathID] ELSE VNone

\* The x and y of field `name` of texture environment e, each `default`
\* when the field or the coordinate is absent.
TexTransform(e, name, default) ==
    VDict(s_x :> Get(Get(e, name, EmptyDict), s_x, default)
       @@ s_y :> Get(Get(e, name, EmptyDict), s_y, default))

\* C15: for a Material, `_textures` has an entry for a property exactly
\* when its texture environment references a texture with a nonzero
\* identifier (identifier 0 or no reference: omitted); the entry holds the
\* identifier as a decimal string, the scale x, y (1.0 each when absent) and
\* the offset x, y (0.0 each when absent).
C15_TexturesIffNonzeroReference ==
    os_pc = "done" /\ os_in.type = s_Material /\ os_in.parse = "ok" =>
        LET tex_envs == SavedList(os_in.data, s_m_TexEnvs)
            bound == {n \in DOMAIN tex_envs :
                        LET id == ReferencedTexture(tex_envs[n].items[2])
                        IN  id.t = "int" /\ id.n # I(0)}
            textures == IF s__textures \in DOMAIN os_out.d
                        THEN os_out.d[s__textures].d ELSE <<>>
        IN  /\ DOMAIN textures = {tex_envs[n].items[1].s : n \in bound}
            /\ \A n \in bound :
                LET e == tex_envs[n].items[2]
                IN  textures[tex_envs[n].items[1].s] =
                        VDict(s_path_id :>
                                VStr(IntToStr(ReferencedTexture(e).n))
                           @@ s_scale :>
                                TexTransform(e, s_m_Scale, VFloat(Pow10(7)))
                           @@ s_offset :>
                                TexTransform(e, s_m_Offset, VFloat(0)))

\* A material binding _MainTex to texture 2^53 + 1 with only a scale x and
\* an offset y, and _BumpMap to texture 0, was snapshotted.
C15_Witness ==
    /\ os_pc = "done"
    /\ os_in.type = s_Material /\ os_in.parse = "ok"
    /\ Len(SavedList(os_in.data, s_m_TexEnvs)) = 2
    /\ s__textures \in DOMAIN os_out.d
    /\ os_out.d[s__textures] =
        VDict(s__MainTex :>
            VDict(s_path_id :> VStr(IntToStr(Above2Pow53))
               @@ s_scale :> VDict(s_x :> VFloat(5) @@ s_y :> VFloat(Pow10(7)))
               @@ s_offset :> VDict(s_x :> VFloat(0) @@ s_y :> VFloat(15))))

\* The sub-meshes the raw property tree of a mesh lists.
SubMeshes(data) == Get(data, s_m_SubMeshes, EmptyList).items

\* `_geometry_info` as the raw property tree data declares it: the first
\* sub-mesh's vertex count, index count and topology (0 when not declared),
\* whether there is a non-empty index buffer, a compressed-mesh payload and
\* a stream-data payload, and the stream's byte size.
DeclaredGeometry(data) ==
    LET first == SubMeshes(data)[1]
        Field(d, name) == IF name \in DOMAIN d.d THEN d.d[name] ELSE VInt(I(0))
        Present(name) == name \in DOMAIN data.d /\ DOMAIN data.d[name].d # {}
    IN  VDict(s_vertex_count :> Field(first, s_vertexCount)
           @@ s_index_count :> Field(first, s_indexCount)
           @@ s_topology :> Field(first, s_topology)
           @@ s_has_index_buffer :>
                VBool(/\ s_m_IndexBuffer \in DOMAIN data.d
                      /\ data.d[s_m_IndexBuffer].bs # <<>>)
           @@ s_has_compressed_mesh :> VBool(Present(s_m_CompressedMesh))
           @@ s_has_stream_data :> VBool(Present(s_m_StreamData))
           @@ s_stream_size :>
                (IF s_m_StreamData \in DOMAIN data.d
                 THEN Field(data.d[s_m_StreamData], s_size)
                 ELSE VInt(I(0))))

\* C16: every Mesh whose raw property tree lists at least one sub-mesh gets
\* `_geometry_info` (first sub-mesh vertex count, index count, topology,
\* index-buffer, compressed-mesh and stream-data flags, stream size) from
\* the raw tree, whether or not reading or decoding the mesh succeeds.
C16_GeometryInfoWhateverDecoding ==
    /\ os_pc = "done" /\ os_in.type = s_Mesh /\ os_in.parse = "ok"
    /\ SubMeshes(os_in.data) # <<>>
    => /\ s__geometry_info \in DOMAIN os_out.d
       /\ os_out.d[s__geometry_info] = DeclaredGeometry(os_in.data)

====
